---- MODULE Spec2Model ----
(***************************************************************************)
(* ds-macro: the action-sequencing and routine-lifecycle engine of         *)
(* ds_macro/controller.py (Routine, DSController) on the single-threaded   *)
(* asyncio event loop.  One task runs at a time (cur); a task gives up the *)
(* loop only at an await that really suspends (asyncio.sleep, gather).     *)
(* The loop's ready queue is FIFO (ready).  The callers of the controller   *)
(* (create_routine, run, cancel_*, emergency_stop) are tasks of the same   *)
(* loop: their calls happen in turns of the loop in which no routine's     *)
(* task is running.                                                        *)
(***************************************************************************)
EXTENDS Integers, Sequences, FiniteSets, TLC

\* ------------------------------------------------------------------------
\* Bounds
\* ------------------------------------------------------------------------
\* number of create_routine calls explored
MaxRoutines == 2

\* ------------------------------------------------------------------------
\* Values
\* ------------------------------------------------------------------------
\* Python None (Routine.name, InputAction.duration, InputAction.key ...)
None == "None"
\* no exception in flight
NoExc == "NoExc"
\* no task holds the event loop
NoUnit == <<>>
\* InputAction.duration = None
NoDuration == -1

\* outcomes of one xdotool invocation (subprocess.run in _execute_xdotool)
Outcomes == {"ok", "unavailable", "rejected"}

\* models.py: the action constructors used by ActionGroup
KeyPress(k) == [type |-> "press", key |-> k, button |-> None, duration |-> NoDuration]
KeyRelease(k) == [type |-> "release", key |-> k, button |-> None, duration |-> NoDuration]
KeyTap(k, d) == [type |-> "tap", key |-> k, button |-> None, duration |-> d]
Wait(d) == [type |-> "wait", key |-> None, button |-> None, duration |-> d]
MousePress(b) == [type |-> "mouse_press", key |-> None, button |-> b, duration |-> NoDuration]
MouseRelease(b) == [type |-> "mouse_release", key |-> None, button |-> b, duration |-> NoDuration]
MouseClick(b, d) == [type |-> "mouse_click", key |-> None, button |-> b, duration |-> d]

ActionSequence(as, p) == [actions |-> as, parallel |-> p]

\* The routines the callers build (name, categories, sequences):
\*   1 background scan: [press(scan), wait, release(scan)]
\*   2 balance: parallel [tap(action), mouse_press(left)], then
\*     sequential [mouse_release(left)]
\*   3 unnamed: sequential [tap(forward), press(forward), release(forward)],
\*     then an empty sequence
Catalogue ==
    << [name |-> "scan", categories |-> {"scanning", "movement"},
        sequences |-> << ActionSequence(<< KeyPress("scan"), Wait(1), KeyRelease("scan") >>, FALSE) >>],
       [name |-> "balance", categories |-> {"movement"},
        sequences |-> << ActionSequence(<< KeyTap("action", 1), MousePress("left") >>, TRUE),
                         ActionSequence(<< MouseRelease("left") >>, FALSE) >>],
       [name |-> None, categories |-> {},
        sequences |-> << ActionSequence(<< KeyTap("forward", 1), KeyPress("forward"),
                                           KeyRelease("forward") >>, FALSE),
                         ActionSequence(<< >>, FALSE) >>] >>

Names == {Catalogue[t].name : t \in DOMAIN Catalogue} \ {None}
Categories == UNION {Catalogue[t].categories : t \in DOMAIN Catalogue}
Ids == 0 .. (MaxRoutines - 1)

\* the longest action list of any sequence
MaxOf(S) == IF S = {} THEN 0 ELSE CHOOSE y \in S : \A z \in S : z <= y
MaxActions ==
    MaxOf(UNION {{Len(Catalogue[t].sequences[k].actions) :
                     k \in DOMAIN Catalogue[t].sequences} : t \in DOMAIN Catalogue})

\* ready-queue entries: a task's next step, a gather done-callback
TaskEntry(r, i) == <<"task", r, i>>
CallbackEntry(r, i) == <<"cb", r, i>>

\* the caller, inside a call of the controller that has done its work
CallerUnit == <<"caller">>

\* op: the name of the operation, its arguments (a routine id, a name or
\* category, a set of categories; for emergency_stop the set of inputs whose
\* release call the device rejected) and what it returned or raised
OpRecord(n, i, k, xs, rv) == [name |-> n, id |-> i, key |-> k, set |-> xs, ret |-> rv]
NoOp == OpRecord("none", -1, None, {}, None)

VARIABLES
    next_routine_id,        \* DSController._next_routine_id
    routines,               \* id -> the Routine object: name, categories, sequences, _cancelled
    id_to_routine,          \* DSController._id_to_routine
    name_to_routines,       \* DSController._name_to_routines
    routine_registry,       \* DSController._routine_registry (category -> set)
    pressed_keys,           \* DSController.pressed_keys
    pressed_mouse_buttons,  \* DSController.pressed_mouse_buttons
    current_pos,            \* DSController.current_x, current_y
    tasks,                  \* id -> where the routine's run() and its actions stand,
                            \*   and the history of the run: calls, the actions of the
                            \*   current sequence in the order of their xdotool calls;
                            \*   keys_added / buttons_added, the inputs the routine's
                            \*   actions added to the held sets and nothing removed since;
                            \*   completed[k], how many actions of the k-th sequence have
                            \*   returned normally from _execute_action
    ready,                  \* the event loop's FIFO of runnable entries
    cur,                    \* the task running now: <<r, 0>> run(), <<r, i>> member i
    op                      \* the caller's operation that the last step completed

vars == << next_routine_id, routines, id_to_routine, name_to_routines,
           routine_registry, pressed_keys, pressed_mouse_buttons, current_pos,
           tasks, ready, cur, op >>

\* ------------------------------------------------------------------------
\* Exceptions (exceptions.py) and the device call
\* ------------------------------------------------------------------------
\* the base class of each exception class
ExceptionParent(e) ==
    CASE e = "KeyboardError" -> "ActionError"
      [] e = "MouseMovementError" -> "ActionError"
      [] e = "XdotoolError" -> "ActionError"
      [] e = "ActionError" -> "DSControllerError"
      [] e = "DSControllerError" -> "Exception"
      [] e = "Exception" -> "BaseException"
      [] OTHER -> None

\* isinstance(e, cls): does `except cls` catch e
RECURSIVE IsInstance(_, _)
IsInstance(e, cls) ==
    IF e = NoExc \/ e = None THEN FALSE
    ELSE IF e = cls THEN TRUE
    ELSE IsInstance(ExceptionParent(e), cls)

\* a missing xdotool binary treated like a command that failed
ExecuteXdotoolStrict(o) == IF o = "ok" THEN NoExc ELSE "XdotoolError"

\* _execute_xdotool: CalledProcessError becomes XdotoolError; a missing
\* xdotool binary (FileNotFoundError) is logged and the call returns
ExecuteXdotool(o) == IF o = "rejected" THEN "XdotoolError" ELSE NoExc

\* the XdotoolError let through without the `except XdotoolError` conversion
KeyCallErrorUnconverted(o) == ExecuteXdotool(o)

\* the exception a key action raises for the outcome of its xdotool call
KeyCallError(o) ==
    IF IsInstance(ExecuteXdotool(o), "XdotoolError") THEN "KeyboardError" ELSE NoExc

\* the exception a mouse action raises for the outcome of its xdotool call
MouseCallError(o) ==
    IF IsInstance(ExecuteXdotool(o), "XdotoolError") THEN "MouseMovementError" ELSE NoExc

\* a release that discards the key before it looks at the outcome
ExecuteKeyReleaseForced(held, key, o) == [held |-> held \ {key}, exc |-> KeyCallError(o)]

\* a release that counts owners: the key stays held while two routines have
\* added it
ExecuteKeyReleaseCounted(held, key, o) ==
    IF KeyCallError(o) # NoExc THEN [held |-> held, exc |-> KeyCallError(o)]
    ELSE IF Cardinality({r \in DOMAIN tasks : key \in tasks[r].keys_added}) > 1
    THEN [held |-> held, exc |-> NoExc]
    ELSE [held |-> held \ {key}, exc |-> NoExc]

\* _execute_key_release on the held-key set: [held, exc]
ExecuteKeyRelease(held, key, o) ==
    IF KeyCallError(o) = NoExc
    THEN [held |-> held \ {key}, exc |-> NoExc]
    ELSE [held |-> held, exc |-> KeyCallError(o)]

\* a press that toggles membership instead of adding
ExecuteKeyPressToggle(held, key, o) ==
    IF KeyCallError(o) # NoExc THEN [held |-> held, exc |-> KeyCallError(o)]
    ELSE IF key \in held THEN [held |-> held \ {key}, exc |-> NoExc]
    ELSE [held |-> held \cup {key}, exc |-> NoExc]

\* _execute_key_press on the held-key set
ExecuteKeyPress(held, key, o) ==
    IF KeyCallError(o) = NoExc
    THEN [held |-> held \cup {key}, exc |-> NoExc]
    ELSE [held |-> held, exc |-> KeyCallError(o)]

\* _execute_mouse_release on the held-button set
ExecuteMouseRelease(held, button, o) ==
    IF MouseCallError(o) = NoExc
    THEN [held |-> held \ {button}, exc |-> NoExc]
    ELSE [held |-> held, exc |-> MouseCallError(o)]

\* _execute_mouse_press on the held-button set
ExecuteMousePress(held, button, o) ==
    IF MouseCallError(o) = NoExc
    THEN [held |-> held \cup {button}, exc |-> NoExc]
    ELSE [held |-> held, exc |-> MouseCallError(o)]

\* _release_key_safely: on KeyboardError discard the key and re-raise
ReleaseKeySafely(held, key, o) ==
    LET res == ExecuteKeyRelease(held, key, o)
    IN  IF IsInstance(res.exc, "KeyboardError")
        THEN [held |-> res.held \ {key}, exc |-> res.exc]
        ELSE res

\* _release_mouse_safely: on MouseMovementError discard the button and re-raise
ReleaseMouseSafely(held, button, o) ==
    LET res == ExecuteMouseRelease(held, button, o)
    IN  IF IsInstance(res.exc, "MouseMovementError")
        THEN [held |-> res.held \ {button}, exc |-> res.exc]
        ELSE res

\* a narrower except clause: only the keyboard failure is caught
EmergencyStopCatchesKeyboardError == "KeyboardError"

\* the class named by the except clauses inside emergency_stop's two loops
EmergencyStopCatches == "Exception"

\* the loop over the held keys leaving at the first release that raised
\* instead of continuing with the next key
RECURSIVE ReleaseAllKeysUntilError(_, _, _)
ReleaseAllKeysUntilError(todo, held, out) ==
    IF todo = {} THEN [held |-> held, exc |-> NoExc]
    ELSE LET key == CHOOSE k \in todo : TRUE
             res == ReleaseKeySafely(held, key, out[key])
         IN  IF res.exc = NoExc
             THEN ReleaseAllKeysUntilError(todo \ {key}, res.held, out)
             ELSE [held |-> res.held \ {key}, exc |-> NoExc]

\* emergency_stop, the loop over list(self.pressed_keys): todo is what is left
\* of that list, out[k] the outcome of key k's xdotool call.  An exception the
\* except clause does not catch ends the loop and leaves emergency_stop.
RECURSIVE ReleaseAllKeys(_, _, _)
ReleaseAllKeys(todo, held, out) ==
    IF todo = {} THEN [held |-> held, exc |-> NoExc]
    ELSE LET key == CHOOSE k \in todo : TRUE
             res == ReleaseKeySafely(held, key, out[key])
         IN  IF res.exc = NoExc
             THEN ReleaseAllKeys(todo \ {key}, res.held, out)
             ELSE IF IsInstance(res.exc, EmergencyStopCatches)
             THEN ReleaseAllKeys(todo \ {key}, res.held \ {key}, out)
             ELSE res

\* emergency_stop, the loop over list(self.pressed_mouse_buttons)
RECURSIVE ReleaseAllButtons(_, _, _)
ReleaseAllButtons(todo, held, out) ==
    IF todo = {} THEN [held |-> held, exc |-> NoExc]
    ELSE LET button == CHOOSE b \in todo : TRUE
             res == ReleaseMouseSafely(held, button, out[button])
         IN  IF res.exc = NoExc
             THEN ReleaseAllButtons(todo \ {button}, res.held, out)
             ELSE IF IsInstance(res.exc, EmergencyStopCatches)
             THEN ReleaseAllButtons(todo \ {button}, res.held \ {button}, out)
             ELSE res

\* ------------------------------------------------------------------------
\* Registry
\* ------------------------------------------------------------------------
\* d[k] = v in a Python dict held as a function
DictPut(d, k, v) == [x \in DOMAIN d \cup {k} |-> IF x = k THEN v ELSE d[x]]
\* del d[k]
DictDel(d, k) == [x \in DOMAIN d \ {k} |-> d[x]]
\* d[k].add(r), creating the set when the key is new
IndexAdd(d, k, r) == DictPut(d, k, IF k \in DOMAIN d THEN d[k] \cup {r} ELSE {r})
\* an unregister that deletes the key without looking at who else is under it
IndexDiscardKey(d, k, r) == IF k \notin DOMAIN d THEN d ELSE DictDel(d, k)

\* an unregister that leaves the emptied set under its key
IndexDiscardKeeping(d, k, r) == IF k \notin DOMAIN d THEN d ELSE DictPut(d, k, d[k] \ {r})

\* d[k].discard(r) and del d[k] when that empties it; nothing for an absent key
IndexDiscard(d, k, r) ==
    IF k \notin DOMAIN d THEN d
    ELSE IF d[k] \ {r} = {} THEN DictDel(d, k)
    ELSE DictPut(d, k, d[k] \ {r})

\* the loops over routine.categories in _register_routine / _unregister_routine
RECURSIVE AddToCategories(_, _, _)
AddToCategories(reg, cats, r) ==
    IF cats = {} THEN reg
    ELSE LET c == CHOOSE x \in cats : TRUE
         IN  AddToCategories(IndexAdd(reg, c, r), cats \ {c}, r)

RECURSIVE DiscardFromCategories(_, _, _)
DiscardFromCategories(reg, cats, r) ==
    IF cats = {} THEN reg
    ELSE LET c == CHOOSE x \in cats : TRUE
         IN  DiscardFromCategories(IndexDiscard(reg, c, r), cats \ {c}, r)

\* _register_routine: the three indices after registering r
RegisterRoutine(r) ==
    [ids |-> DictPut(id_to_routine, r, r),
     names |-> IF routines[r].name # None
               THEN IndexAdd(name_to_routines, routines[r].name, r)
               ELSE name_to_routines,
     cats |-> AddToCategories(routine_registry, routines[r].categories, r)]

\* an unregister that is skipped when an exception is leaving run(), as it
\* would be without the finally clause
UnregisterRoutineUnlessFailed(r) ==
    IF tasks[r].exit = "failed"
    THEN [ids |-> id_to_routine, names |-> name_to_routines, cats |-> routine_registry]
    ELSE [ids |-> DictDel(id_to_routine, r),
          names |-> IF routines[r].name # None
                    THEN IndexDiscard(name_to_routines, routines[r].name, r)
                    ELSE name_to_routines,
          cats |-> DiscardFromCategories(routine_registry, routines[r].categories, r)]

\* _unregister_routine: the three indices after unregistering r
UnregisterRoutine(r) ==
    [ids |-> DictDel(id_to_routine, r),
     names |-> IF routines[r].name # None
               THEN IndexDiscard(name_to_routines, routines[r].name, r)
               ELSE name_to_routines,
     cats |-> DiscardFromCategories(routine_registry, routines[r].categories, r)]

\* Routine.cancel applied to every routine of S: _cancelled = True.  _task is
\* assigned None in __init__ and nowhere else, so `if self._task` never holds
\* and no task is interrupted.
CancelAll(S) ==
    [r \in DOMAIN routines |->
        IF r \in S THEN [routines[r] EXCEPT !.cancelled = TRUE] ELSE routines[r]]

\* the exempt set taken as the routines that are in every listed category
ExemptRoutinesInEvery(cats) ==
    {r \in DOMAIN routines :
        /\ cats # {}
        /\ \A c \in cats : c \in DOMAIN routine_registry /\ r \in routine_registry[c]}

\* cancel_all_except: the union of the exempt categories' routines
ExemptRoutines(cats) ==
    UNION {routine_registry[c] : c \in cats \cap DOMAIN routine_registry}

\* cancel_all_except: the routines it cancels
CancelAllExceptTargets(cats) ==
    {id_to_routine[i] : i \in DOMAIN id_to_routine} \ ExemptRoutines(cats)

\* ------------------------------------------------------------------------
\* Initial state: DSController.__init__
\* ------------------------------------------------------------------------
Init ==
    /\ next_routine_id = 0
    /\ routines = << >>
    /\ id_to_routine = << >>
    /\ name_to_routines = << >>
    /\ routine_registry = << >>
    /\ pressed_keys = {}
    /\ pressed_mouse_buttons = {}
    /\ current_pos = << 0, 0 >>
    /\ tasks = << >>
    /\ ready = << >>
    /\ cur = NoUnit
    /\ op = NoOp

\* the sequence run() is executing (or executed last)
CurSeq(r) == routines[r].sequences[tasks[r].seq]

\* execute_sequence taking one branch whatever the sequence's flag says
AlwaysGather(sequence) == TRUE
NeverGather(sequence) == FALSE

\* execute_sequence: does this sequence take the create_task/gather branch
IsParallel(sequence) == sequence.parallel

\* the task that executes action i of r's current sequence: a task of its
\* own (create_task) in a parallel sequence, run()'s task otherwise
UnitIdx(r, i) == IF IsParallel(CurSeq(r)) THEN i ELSE 0
Unit(r, i) == << r, UnitIdx(r, i) >>

InReady(e) == \E n \in DOMAIN ready : ready[n] = e

\* a create_routine that hands out the number of routines not yet finished
CreateRoutineReusing(t) ==
    /\ cur = NoUnit
    /\ cur' = CallerUnit
    /\ next_routine_id < MaxRoutines
    /\ LET routine_id == Cardinality({r \in DOMAIN tasks : tasks[r].pc # "done"})
       IN  /\ next_routine_id' = next_routine_id + 1
           /\ routines' = DictPut(routines, routine_id,
                             [name |-> Catalogue[t].name,
                              categories |-> Catalogue[t].categories,
                              sequences |-> Catalogue[t].sequences,
                              cancelled |-> FALSE])
           /\ tasks' = DictPut(tasks, routine_id,
                          [pc |-> "created", seq |-> 0, phase |-> << >>,
                           nfinished |-> 0, outer |-> None,
                           exit |-> None, exc |-> NoExc, calls |-> << >>,
                           keys_added |-> {}, buttons_added |-> {},
                           completed |-> << >>])
           /\ op' = OpRecord("create_routine", routine_id, None, {}, None)
    /\ UNCHANGED << current_pos, id_to_routine, name_to_routines, routine_registry,
                    pressed_keys, pressed_mouse_buttons, ready >>

\* ------------------------------------------------------------------------
\* DSController operations called by the caller
\* ------------------------------------------------------------------------
\* create_routine(name, categories) followed by the builder calls that give
\* the routine the sequences of Catalogue[t]
CreateRoutine(t) ==
    /\ cur = NoUnit
    /\ cur' = CallerUnit
    /\ next_routine_id < MaxRoutines
    /\ LET routine_id == next_routine_id
       IN  /\ next_routine_id' = next_routine_id + 1
           /\ routines' = DictPut(routines, routine_id,
                             [name |-> Catalogue[t].name,
                              categories |-> Catalogue[t].categories,
                              sequences |-> Catalogue[t].sequences,
                              cancelled |-> FALSE])
           /\ tasks' = DictPut(tasks, routine_id,
                          [pc |-> "created", seq |-> 0, phase |-> << >>,
                           nfinished |-> 0, outer |-> None,
                           exit |-> None, exc |-> NoExc, calls |-> << >>,
                           keys_added |-> {}, buttons_added |-> {},
                           completed |-> << >>])
           /\ op' = OpRecord("create_routine", routine_id, None, {}, None)
    /\ UNCHANGED << current_pos, id_to_routine, name_to_routines, routine_registry,
                    pressed_keys, pressed_mouse_buttons, ready >>

\* Routine.cancel called on the routine object itself
RoutineCancel(r) ==
    /\ cur = NoUnit
    /\ cur' = CallerUnit
    /\ r \in DOMAIN routines
    /\ routines' = CancelAll({r})
    /\ op' = OpRecord("cancel", r, None, {}, None)
    /\ UNCHANGED << current_pos, next_routine_id, id_to_routine, name_to_routines, routine_registry,
                    pressed_keys, pressed_mouse_buttons, tasks, ready >>

\* a lookup among all routines ever created instead of the id index
cancel_by_id_created(routine_id) ==
    /\ cur = NoUnit
    /\ cur' = CallerUnit
    /\ IF routine_id \in DOMAIN routines
       THEN /\ routines' = CancelAll({routine_id})
            /\ op' = OpRecord("cancel_by_id", routine_id, None, {}, "True")
       ELSE /\ routines' = routines
            /\ op' = OpRecord("cancel_by_id", routine_id, None, {}, "False")
    /\ UNCHANGED << current_pos, next_routine_id, id_to_routine, name_to_routines, routine_registry,
                    pressed_keys, pressed_mouse_buttons, tasks, ready >>

cancel_by_id(routine_id) ==
    /\ cur = NoUnit
    /\ cur' = CallerUnit
    /\ IF routine_id \in DOMAIN id_to_routine
       THEN /\ routines' = CancelAll({id_to_routine[routine_id]})
            /\ op' = OpRecord("cancel_by_id", routine_id, None, {}, "True")
       ELSE /\ routines' = routines
            /\ op' = OpRecord("cancel_by_id", routine_id, None, {}, "False")
    /\ UNCHANGED << current_pos, next_routine_id, id_to_routine, name_to_routines, routine_registry,
                    pressed_keys, pressed_mouse_buttons, tasks, ready >>

\* a cancel_by_name that stops after the first routine of the name's set
cancel_by_name_first(name) ==
    /\ cur = NoUnit
    /\ cur' = CallerUnit
    /\ IF name \notin DOMAIN name_to_routines
       THEN /\ routines' = routines
            /\ op' = OpRecord("cancel_by_name", -1, name, {}, "False")
       ELSE /\ routines' = CancelAll({CHOOSE r \in name_to_routines[name] : TRUE})
            /\ op' = OpRecord("cancel_by_name", -1, name, {}, "True")
    /\ UNCHANGED << current_pos, next_routine_id, id_to_routine, name_to_routines, routine_registry,
                    pressed_keys, pressed_mouse_buttons, tasks, ready >>

cancel_by_name(name) ==
    /\ cur = NoUnit
    /\ cur' = CallerUnit
    /\ IF name \notin DOMAIN name_to_routines
       THEN /\ routines' = routines
            /\ op' = OpRecord("cancel_by_name", -1, name, {}, "False")
       ELSE /\ routines' = CancelAll(name_to_routines[name])
            /\ op' = OpRecord("cancel_by_name", -1, name, {}, "True")
    /\ UNCHANGED << current_pos, next_routine_id, id_to_routine, name_to_routines, routine_registry,
                    pressed_keys, pressed_mouse_buttons, tasks, ready >>

cancel_category(category) ==
    /\ cur = NoUnit
    /\ cur' = CallerUnit
    /\ IF category \notin DOMAIN routine_registry
       THEN /\ routines' = routines
            /\ op' = OpRecord("cancel_category", -1, category, {}, "False")
       ELSE /\ routines' = CancelAll(routine_registry[category])
            /\ op' = OpRecord("cancel_category", -1, category, {}, "True")
    /\ UNCHANGED << current_pos, next_routine_id, id_to_routine, name_to_routines, routine_registry,
                    pressed_keys, pressed_mouse_buttons, tasks, ready >>

cancel_all_except(categories) ==
    /\ cur = NoUnit
    /\ cur' = CallerUnit
    /\ routines' = CancelAll(CancelAllExceptTargets(categories))
    /\ op' = OpRecord("cancel_all_except", -1, None, categories, None)
    /\ UNCHANGED << current_pos, next_routine_id, id_to_routine, name_to_routines, routine_registry,
                    pressed_keys, pressed_mouse_buttons, tasks, ready >>

\* history: an input that left a held set is no longer one a routine added
Normalize(tk, keys, buttons) ==
    [r \in DOMAIN tk |-> [tk[r] EXCEPT !.keys_added = @ \cap keys,
                                       !.buttons_added = @ \cap buttons]]

\* emergency_stop: list(self.pressed_keys), list(self.pressed_mouse_buttons)
KeysToRelease == pressed_keys
ButtonsToRelease == pressed_mouse_buttons

\* an emergency_stop that flags every routine the controller ever created
emergency_stop_all_created(keyOut, buttonOut) ==
    /\ cur = NoUnit
    /\ cur' = CallerUnit
    /\ routines' = CancelAll(DOMAIN routines)
    /\ LET keys == ReleaseAllKeys(KeysToRelease, pressed_keys, keyOut)
           buttons == IF keys.exc = NoExc
                      THEN ReleaseAllButtons(ButtonsToRelease, pressed_mouse_buttons, buttonOut)
                      ELSE [held |-> pressed_mouse_buttons, exc |-> keys.exc]
           rejected == {k \in pressed_keys : keyOut[k] = "rejected"}
                       \cup {b \in pressed_mouse_buttons : buttonOut[b] = "rejected"}
       IN  /\ pressed_keys' = keys.held
           /\ pressed_mouse_buttons' = buttons.held
           /\ tasks' = Normalize(tasks, keys.held, buttons.held)
           /\ op' = OpRecord("emergency_stop", -1, None, rejected,
                             IF buttons.exc = NoExc THEN None ELSE buttons.exc)
    /\ UNCHANGED << current_pos, next_routine_id, id_to_routine, name_to_routines, routine_registry,
                    ready >>

\* an emergency_stop that hands the loop to the other tasks after its
\* cancellation phase, the releases still to come
emergency_stop_yielding(keyOut, buttonOut) ==
    /\ cur = NoUnit
    /\ cur' = NoUnit
    /\ routines' = CancelAll({id_to_routine[i] : i \in DOMAIN id_to_routine})
    /\ op' = OpRecord("emergency_stop", -1, None, {}, None)
    /\ UNCHANGED << current_pos, next_routine_id, id_to_routine, name_to_routines, routine_registry,
                    ready, pressed_keys, pressed_mouse_buttons, tasks >>

\* emergency_stop: it awaits only coroutines that never suspend, so it is one
\* step.  keyOut and buttonOut are the outcomes of the release calls.
emergency_stop(keyOut, buttonOut) ==
    /\ cur = NoUnit
    /\ cur' = CallerUnit
    /\ routines' = CancelAll({id_to_routine[i] : i \in DOMAIN id_to_routine})
    /\ LET keys == ReleaseAllKeys(KeysToRelease, pressed_keys, keyOut)
           buttons == IF keys.exc = NoExc
                      THEN ReleaseAllButtons(ButtonsToRelease, pressed_mouse_buttons, buttonOut)
                      ELSE [held |-> pressed_mouse_buttons, exc |-> keys.exc]
           rejected == {k \in pressed_keys : keyOut[k] = "rejected"}
                       \cup {b \in pressed_mouse_buttons : buttonOut[b] = "rejected"}
       IN  /\ pressed_keys' = keys.held
           /\ pressed_mouse_buttons' = buttons.held
           /\ tasks' = Normalize(tasks, keys.held, buttons.held)
           /\ op' = OpRecord("emergency_stop", -1, None, rejected,
                             IF buttons.exc = NoExc THEN None ELSE buttons.exc)
    /\ UNCHANGED << current_pos, next_routine_id, id_to_routine, name_to_routines, routine_registry,
                    ready >>

\* the call made by the caller returns (or raises) to it
Return ==
    /\ cur = CallerUnit
    /\ cur' = NoUnit
    /\ op' = NoOp
    /\ UNCHANGED << current_pos, next_routine_id, routines, id_to_routine, name_to_routines,
                    routine_registry, pressed_keys, pressed_mouse_buttons, tasks, ready >>

\* ------------------------------------------------------------------------
\* Routine.run
\* ------------------------------------------------------------------------

\* a run() that clears the flag when it starts
RunStartResetting(r) ==
    /\ cur = NoUnit
    /\ r \in DOMAIN routines
    /\ tasks[r].pc = "created"
    /\ LET reg == RegisterRoutine(r)
       IN  /\ id_to_routine' = reg.ids
           /\ name_to_routines' = reg.names
           /\ routine_registry' = reg.cats
    /\ tasks' = [tasks EXCEPT ![r].pc = "loop", ![r].seq = 1]
    /\ routines' = [routines EXCEPT ![r].cancelled = FALSE]
    /\ cur' = << r, 0 >>
    /\ op' = OpRecord("run", r, None, {}, None)
    /\ UNCHANGED << current_pos, next_routine_id, pressed_keys, pressed_mouse_buttons, ready >>

\* run() up to its try statement: _register_routine; run() then goes on in
\* the same turn of the event loop
RunStart(r) ==
    /\ cur = NoUnit
    /\ r \in DOMAIN routines
    /\ tasks[r].pc = "created"
    /\ LET reg == RegisterRoutine(r)
       IN  /\ id_to_routine' = reg.ids
           /\ name_to_routines' = reg.names
           /\ routine_registry' = reg.cats
    /\ tasks' = [tasks EXCEPT ![r].pc = "loop", ![r].seq = 1]
    /\ cur' = << r, 0 >>
    /\ op' = OpRecord("run", r, None, {}, None)
    /\ UNCHANGED << current_pos, next_routine_id, routines, pressed_keys, pressed_mouse_buttons, ready >>

\* the ready-queue entries of create_task for actions i..n, in list order
RECURSIVE MemberEntries(_, _, _)
MemberEntries(r, i, n) ==
    IF i > n THEN << >> ELSE << TaskEntry(r, i) >> \o MemberEntries(r, i + 1, n)

\* a for loop that does not look at _cancelled
LoopStepUnchecked(r) ==
    /\ cur = << r, 0 >>
    /\ tasks[r].pc = "loop"
    /\ op' = NoOp
    /\ IF tasks[r].seq > Len(routines[r].sequences)
       THEN \* the loop is exhausted: "Completed routine"
            /\ tasks' = [tasks EXCEPT ![r].pc = "finally", ![r].exit = "completed"]
            /\ UNCHANGED << ready, cur >>
       ELSE LET n == Len(CurSeq(r).actions)
            IN  IF n = 0
                THEN \* nothing to execute (gather() of nothing is already done)
                     /\ tasks' = [tasks EXCEPT ![r].seq = @ + 1,
                                               ![r].completed = Append(@, 0)]
                     /\ UNCHANGED << ready, cur >>
                ELSE IF IsParallel(CurSeq(r))
                THEN \* create_task for every action, then await gather
                     /\ tasks' = [tasks EXCEPT ![r].pc = "gather",
                                               ![r].phase = [i \in 1 .. n |-> "ready0"],
                                               ![r].nfinished = 0,
                                               ![r].outer = "pending",
                                               ![r].calls = << >>,
                                               ![r].completed = Append(@, 0)]
                     /\ ready' = ready \o MemberEntries(r, 1, n)
                     /\ cur' = NoUnit
                ELSE \* await self._execute_action(actions[0]) in run()'s own task
                     /\ tasks' = [tasks EXCEPT ![r].pc = "seq",
                                               ![r].phase = [i \in 1 .. n |->
                                                   IF i = 1 THEN "exec0" ELSE "pending"],
                                               ![r].calls = << >>,
                                               ![r].completed = Append(@, 0)]
                     /\ UNCHANGED << ready, cur >>
    /\ UNCHANGED << current_pos, next_routine_id, routines, id_to_routine, name_to_routines,
                    routine_registry, pressed_keys, pressed_mouse_buttons >>

\* the head of run()'s for loop and the entry into execute_sequence
LoopStep(r) ==
    /\ cur = << r, 0 >>
    /\ tasks[r].pc = "loop"
    /\ op' = NoOp
    /\ IF tasks[r].seq > Len(routines[r].sequences)
       THEN \* the loop is exhausted: "Completed routine"
            /\ tasks' = [tasks EXCEPT ![r].pc = "finally", ![r].exit = "completed"]
            /\ UNCHANGED << ready, cur >>
       ELSE IF routines[r].cancelled
       THEN \* if self._cancelled: break
            /\ tasks' = [tasks EXCEPT ![r].pc = "finally", ![r].exit = "cancelled"]
            /\ UNCHANGED << ready, cur >>
       ELSE LET n == Len(CurSeq(r).actions)
            IN  IF n = 0
                THEN \* nothing to execute (gather() of nothing is already done)
                     /\ tasks' = [tasks EXCEPT ![r].seq = @ + 1,
                                               ![r].completed = Append(@, 0)]
                     /\ UNCHANGED << ready, cur >>
                ELSE IF IsParallel(CurSeq(r))
                THEN \* create_task for every action, then await gather
                     /\ tasks' = [tasks EXCEPT ![r].pc = "gather",
                                               ![r].phase = [i \in 1 .. n |-> "ready0"],
                                               ![r].nfinished = 0,
                                               ![r].outer = "pending",
                                               ![r].calls = << >>,
                                               ![r].completed = Append(@, 0)]
                     /\ ready' = ready \o MemberEntries(r, 1, n)
                     /\ cur' = NoUnit
                ELSE \* await self._execute_action(actions[0]) in run()'s own task
                     /\ tasks' = [tasks EXCEPT ![r].pc = "seq",
                                               ![r].phase = [i \in 1 .. n |->
                                                   IF i = 1 THEN "exec0" ELSE "pending"],
                                               ![r].calls = << >>,
                                               ![r].completed = Append(@, 0)]
                     /\ UNCHANGED << ready, cur >>
    /\ UNCHANGED << current_pos, next_routine_id, routines, id_to_routine, name_to_routines,
                    routine_registry, pressed_keys, pressed_mouse_buttons >>

\* a finally clause that also takes the routine's inputs out of the held sets
FinallyReleasing(r) ==
    /\ cur = << r, 0 >>
    /\ tasks[r].pc = "finally"
    /\ LET reg == UnregisterRoutine(r)
       IN  /\ id_to_routine' = reg.ids
           /\ name_to_routines' = reg.names
           /\ routine_registry' = reg.cats
    /\ pressed_keys' = pressed_keys \ tasks[r].keys_added
    /\ pressed_mouse_buttons' = pressed_mouse_buttons \ tasks[r].buttons_added
    /\ tasks' = Normalize([tasks EXCEPT ![r].pc = "done"],
                          pressed_keys \ tasks[r].keys_added,
                          pressed_mouse_buttons \ tasks[r].buttons_added)
    /\ cur' = NoUnit
    /\ op' = NoOp
    /\ UNCHANGED << current_pos, next_routine_id, routines, ready >>

\* run()'s finally clause: _unregister_routine; then run() returns or re-raises
\* to the caller that awaits it
Finally(r) ==
    /\ cur = << r, 0 >>
    /\ tasks[r].pc = "finally"
    /\ LET reg == UnregisterRoutine(r)
       IN  /\ id_to_routine' = reg.ids
           /\ name_to_routines' = reg.names
           /\ routine_registry' = reg.cats
    /\ tasks' = [tasks EXCEPT ![r].pc = "done"]
    /\ cur' = NoUnit
    /\ op' = NoOp
    /\ UNCHANGED << current_pos, next_routine_id, routines, pressed_keys, pressed_mouse_buttons, ready >>

\* ------------------------------------------------------------------------
\* _execute_action
\* ------------------------------------------------------------------------
\* models.py MouseMove; dx and dy are reals, held here in tenths
MouseMove(dx, dy, d) ==
    [type |-> "mouse_move", key |-> None, button |-> None, duration |-> d,
     dx |-> dx, dy |-> dy]

\* the dx / dy values tried: -1.5, -0.4, 0.0, 1.5
MoveTenths == {-15, -4, 0, 15}

\* int(x) of a real x held in tenths: truncation toward zero
IntOf(x) == IF x >= 0 THEN x \div 10 ELSE -((-x) \div 10)

\* _execute_mouse_move on the tracked position: [pos, exc]
ExecuteMouseMove(pos, a, o) ==
    IF MouseCallError(o) = NoExc
    THEN [pos |-> << pos[1] + IntOf(a.dx), pos[2] + IntOf(a.dy) >>, exc |-> NoExc]
    ELSE [pos |-> pos, exc |-> MouseCallError(o)]

\* models.py Turn; the duration is held in tenths of a second
Turn(degrees, d) ==
    [type |-> "turn", key |-> None, button |-> None, duration |-> d, degrees |-> degrees]

\* MouseConfig.pixels_per_degree (32.5), in tenths of a pixel
PixelsPerDegree == 325

\* fixed point: reals are held as integers in units of 1 / SinScale
SinScale == 10000
\* math.pi in that unit
PiScaled == 31416

\* math.sin(progress * math.pi) for progress = i / total_steps, in units of
\* 1 / SinScale: the argument is folded into [0, pi/2] and the sine summed
\* from its series x - x^3/3! + x^5/5! - x^7/7! + x^9/9!
Smoothing(i, total_steps) ==
    LET y == (PiScaled * i) \div total_steps
        x == IF y > PiScaled \div 2 THEN PiScaled - y ELSE y
        x2 == (x * x) \div SinScale
        t3 == ((x * x2) \div SinScale) \div 6
        t5 == ((t3 * x2) \div SinScale) \div 20
        t7 == ((t5 * x2) \div SinScale) \div 42
        t9 == ((t7 * x2) \div SinScale) \div 72
    IN  x - t3 + t5 - t7 + t9

\* total_steps = int(duration * steps), duration in tenths of a second
TotalSteps(duration, steps) == (duration * steps) \div 10

\* total_pixels = degrees * pixels_per_degree, in tenths of a pixel
TotalPixels(degrees) == degrees * PixelsPerDegree

Abs(x) == IF x < 0 THEN -x ELSE x

\* pixels_this_step = (total_pixels / total_steps) * smoothing, in tenths of
\* a pixel, of step i (0-based) of total_steps
PixelsThisStep(degrees, total_steps, i) ==
    LET magnitude == (Abs(TotalPixels(degrees)) * Smoothing(i, total_steps))
                         \div (total_steps * SinScale)
    IN  IF degrees < 0 THEN -magnitude ELSE magnitude

\* MouseConfig.steps_per_second of the controllers that run routines
StepsPerSecond == 20

\* the MouseMove that call number made + 1 of action a hands to
\* _execute_mouse_move: the action itself, or the next step of a turn
MoveOf(a, made) ==
    IF a.type = "turn"
    THEN MouseMove(PixelsThisStep(a.degrees, TotalSteps(a.duration, StepsPerSecond), made),
                   0, 0)
    ELSE a

\* how many xdotool calls action i of the sequence has made
NumCalls(r, i) == Cardinality({n \in DOMAIN tasks[r].calls : tasks[r].calls[n] = i})

\* the xdotool call an action makes first, by action.type (the if/elif chain
\* of _execute_action and the head of each _execute_* method)
FirstCall(a) ==
    CASE a.type = "press" -> "keydown"
      [] a.type = "release" -> "keyup"
      [] a.type = "tap" -> "keydown"
      [] a.type = "mouse_press" -> "mousedown"
      [] a.type = "mouse_release" -> "mouseup"
      [] a.type = "mouse_click" -> "mousedown"
      [] a.type = "mouse_move" -> "mousemove_relative"
      [] a.type = "turn" ->
           IF TotalSteps(a.duration, StepsPerSecond) > 0 THEN "mousemove_relative"
           ELSE None
      [] OTHER -> None

\* a wait that returns without sleeping
SleepsInsideNoWait(a) == a.type \in {"tap", "mouse_click"}

\* does the _execute_* method of the action await asyncio.sleep(duration)
SleepsInside(a) ==
    \/ a.type \in {"tap", "wait", "mouse_click"}
    \/ a.type = "turn" /\ TotalSteps(a.duration, StepsPerSecond) > 0

\* a tap that never issues its key-up
SecondCallClickOnly(a) == IF a.type = "mouse_click" THEN "mouseup" ELSE None

\* the xdotool call the method makes after that sleep
SecondCall(a) ==
    CASE a.type = "tap" -> "keyup"
      [] a.type = "mouse_click" -> "mouseup"
      [] OTHER -> None

\* one xdotool call with outcome o and the update of the held sets or of the
\* tracked position that the method makes after it: [keys, buttons, pos, exc]
DeviceCall(call, a, o) ==
    CASE call = "keydown" ->
           LET res == ExecuteKeyPress(pressed_keys, a.key, o)
           IN  [keys |-> res.held, buttons |-> pressed_mouse_buttons,
                pos |-> current_pos, exc |-> res.exc]
      [] call = "keyup" ->
           LET res == ExecuteKeyRelease(pressed_keys, a.key, o)
           IN  [keys |-> res.held, buttons |-> pressed_mouse_buttons,
                pos |-> current_pos, exc |-> res.exc]
      [] call = "mousedown" ->
           LET res == ExecuteMousePress(pressed_mouse_buttons, a.button, o)
           IN  [keys |-> pressed_keys, buttons |-> res.held,
                pos |-> current_pos, exc |-> res.exc]
      [] call = "mouseup" ->
           LET res == ExecuteMouseRelease(pressed_mouse_buttons, a.button, o)
           IN  [keys |-> pressed_keys, buttons |-> res.held,
                pos |-> current_pos, exc |-> res.exc]
      [] call = "mousemove_relative" ->
           LET res == ExecuteMouseMove(current_pos, a, o)
           IN  [keys |-> pressed_keys, buttons |-> pressed_mouse_buttons,
                pos |-> res.pos, exc |-> res.exc]
      [] OTHER ->
           [keys |-> pressed_keys, buttons |-> pressed_mouse_buttons,
            pos |-> current_pos, exc |-> NoExc]

\* history: action i of r made an xdotool call; a press that raised nothing
\* added its input to the held set
NoteCall(tk, r, i, call, a, exc) ==
    IF call = None THEN tk
    ELSE [tk EXCEPT ![r].calls = Append(@, i),
                    ![r].keys_added =
                        IF call = "keydown" /\ exc = NoExc THEN @ \cup {a.key} ELSE @,
                    ![r].buttons_added =
                        IF call = "mousedown" /\ exc = NoExc THEN @ \cup {a.button} ELSE @]

\* a sleep that keeps the event loop (time.sleep): the task stays the running
\* one while its timer is pending
SuspendBlocking(tk, r, i, n, d) ==
    [tasks |-> [tk EXCEPT ![r].phase[i] =
                    IF d <= 0 THEN (IF n = 1 THEN "ready1" ELSE "ready2")
                    ELSE (IF n = 1 THEN "sleep1" ELSE "sleep2")],
     ready |-> IF d <= 0 THEN Append(ready, TaskEntry(r, UnitIdx(r, i))) ELSE ready,
     cur |-> IF d <= 0 THEN NoUnit ELSE Unit(r, i)]

\* await asyncio.sleep(d) in action i (n = 1 inside the method, n = 2 the
\* trailing hold): the task leaves the loop until the timer fires; a sleep
\* of a delay that is not positive only yields, the task is runnable again
\* at once
Suspend(tk, r, i, n, d) ==
    [tasks |-> [tk EXCEPT ![r].phase[i] =
                    IF d <= 0 THEN (IF n = 1 THEN "ready1" ELSE "ready2")
                    ELSE (IF n = 1 THEN "sleep1" ELSE "sleep2")],
     ready |-> IF d <= 0 THEN Append(ready, TaskEntry(r, UnitIdx(r, i))) ELSE ready,
     cur |-> NoUnit]

\* an execute_sequence that logs an action's exception and goes on
FinishContinuing(tk, r, i, exc) ==
    IF IsParallel(CurSeq(r))
    THEN [tasks |-> [tk EXCEPT ![r].phase[i] = IF exc = NoExc THEN "done" ELSE exc,
                               ![r].completed[tk[r].seq] =
                                   IF exc = NoExc THEN @ + 1 ELSE @],
          ready |-> Append(ready, CallbackEntry(r, i)),
          cur |-> NoUnit]
    ELSE [tasks |->
             IF i < Len(CurSeq(r).actions)
             THEN [tk EXCEPT ![r].phase[i] = IF exc = NoExc THEN "done" ELSE exc,
                             ![r].phase[i + 1] = "exec0",
                             ![r].completed[tk[r].seq] = IF exc = NoExc THEN @ + 1 ELSE @]
             ELSE [tk EXCEPT ![r].phase = << >>, ![r].pc = "loop", ![r].seq = @ + 1,
                             ![r].completed[tk[r].seq] = IF exc = NoExc THEN @ + 1 ELSE @],
          ready |-> ready,
          cur |-> cur]

\* _execute_action has returned (exc = NoExc) or raised for action i.  In a
\* parallel sequence the member task ends and its done-callback is queued; in
\* a sequential one run() goes on to the next action, or leaves the sequence,
\* or the exception leaves execute_sequence and run()'s try block.
Finish(tk, r, i, exc) ==
    IF IsParallel(CurSeq(r))
    THEN [tasks |-> [tk EXCEPT ![r].phase[i] = IF exc = NoExc THEN "done" ELSE exc,
                               ![r].completed[tk[r].seq] =
                                   IF exc = NoExc THEN @ + 1 ELSE @],
          ready |-> Append(ready, CallbackEntry(r, i)),
          cur |-> NoUnit]
    ELSE [tasks |->
             IF exc # NoExc
             THEN [tk EXCEPT ![r].phase[i] = exc, ![r].pc = "finally",
                             ![r].exit = "failed", ![r].exc = exc]
             ELSE IF i < Len(CurSeq(r).actions)
             THEN [tk EXCEPT ![r].phase[i] = "done", ![r].phase[i + 1] = "exec0",
                             ![r].completed[tk[r].seq] = @ + 1]
             ELSE [tk EXCEPT ![r].phase = << >>, ![r].pc = "loop", ![r].seq = @ + 1,
                             ![r].completed[tk[r].seq] = @ + 1],
          ready |-> ready,
          cur |-> cur]

\* a tail that sleeps for the duration of every action that has one
HasTrailingHoldAlways(a) == a.duration # NoDuration /\ a.duration # 0

\* the tail of _execute_action: an action with a duration that is not a wait
\* sleeps for the duration once more
HasTrailingHold(a) ==
    a.duration # NoDuration /\ a.duration # 0 /\ a.type # "wait"

AfterDispatch(tk, r, i, a) ==
    IF HasTrailingHold(a) THEN Suspend(tk, r, i, 2, a.duration) ELSE Finish(tk, r, i, NoExc)

\* _execute_action from its start to the first suspension or to its end;
\* o is the outcome of the xdotool call the action makes
ExecStart(r, i, o) ==
    /\ r \in DOMAIN tasks
    /\ i \in DOMAIN tasks[r].phase
    /\ cur = Unit(r, i)
    /\ tasks[r].phase[i] = "exec0"
    /\ LET a == CurSeq(r).actions[i]
           call == FirstCall(a)
           dev == DeviceCall(call, MoveOf(a, 0), o)
           tk == NoteCall(tasks, r, i, call, a, dev.exc)
           nxt == IF dev.exc # NoExc THEN Finish(tk, r, i, dev.exc)
                  ELSE IF SleepsInside(a) THEN Suspend(tk, r, i, 1, a.duration)
                  ELSE AfterDispatch(tk, r, i, a)
       IN  /\ call = None => o = "ok"
           /\ pressed_keys' = dev.keys
           /\ pressed_mouse_buttons' = dev.buttons
           /\ current_pos' = dev.pos
           /\ tasks' = Normalize(nxt.tasks, dev.keys, dev.buttons)
           /\ ready' = nxt.ready
           /\ cur' = nxt.cur
    /\ op' = NoOp
    /\ UNCHANGED << next_routine_id, routines, id_to_routine, name_to_routines,
                    routine_registry >>

\* the xdotool call _execute_action makes when it goes on after a sleep inside
\* the method of action a, which has made `made` calls: the key-up of a tap,
\* the mouse-up of a click, the next move of a turn that has steps left
ResumeCall(a, made) ==
    IF a.type = "turn"
    THEN (IF made < TotalSteps(a.duration, StepsPerSecond) THEN "mousemove_relative"
          ELSE None)
    ELSE SecondCall(a)

\* _execute_action resumed after the sleep inside tap, wait, mouse_click or a
\* step of a turn: the key-up or mouse-up call and then the trailing hold, or
\* the next move of the turn and its sleep
ExecResume(r, i, o) ==
    /\ r \in DOMAIN tasks
    /\ i \in DOMAIN tasks[r].phase
    /\ cur = Unit(r, i)
    /\ tasks[r].phase[i] = "exec1"
    /\ LET a == CurSeq(r).actions[i]
           made == NumCalls(r, i)
           call == ResumeCall(a, made)
           dev == DeviceCall(call, MoveOf(a, made), o)
           tk == NoteCall(tasks, r, i, call, a, dev.exc)
           nxt == IF dev.exc # NoExc THEN Finish(tk, r, i, dev.exc)
                  ELSE IF a.type = "turn" /\ call # None
                  THEN Suspend(tk, r, i, 1, a.duration)
                  ELSE AfterDispatch(tk, r, i, a)
       IN  /\ call = None => o = "ok"
           /\ pressed_keys' = dev.keys
           /\ pressed_mouse_buttons' = dev.buttons
           /\ current_pos' = dev.pos
           /\ tasks' = Normalize(nxt.tasks, dev.keys, dev.buttons)
           /\ ready' = nxt.ready
           /\ cur' = nxt.cur
    /\ op' = NoOp
    /\ UNCHANGED << next_routine_id, routines, id_to_routine, name_to_routines,
                    routine_registry >>

\* _execute_action resumed after the trailing hold: it returns
ExecEnd(r, i) ==
    /\ r \in DOMAIN tasks
    /\ i \in DOMAIN tasks[r].phase
    /\ cur = Unit(r, i)
    /\ tasks[r].phase[i] = "exec2"
    /\ LET nxt == Finish(tasks, r, i, NoExc)
       IN  /\ tasks' = nxt.tasks
           /\ ready' = nxt.ready
           /\ cur' = nxt.cur
    /\ op' = NoOp
    /\ UNCHANGED << current_pos, next_routine_id, routines, id_to_routine, name_to_routines,
                    routine_registry, pressed_keys, pressed_mouse_buttons >>

\* ------------------------------------------------------------------------
\* The event loop and the tasks of the routines
\* ------------------------------------------------------------------------
\* a loop whose timers fire only for trailing holds: a sleep inside a method
\* never ends
TimerFireTrailingOnly(r, i) ==
    /\ cur = NoUnit
    /\ r \in DOMAIN tasks
    /\ i \in DOMAIN tasks[r].phase
    /\ tasks[r].phase[i] = "sleep2"
    /\ tasks' = [tasks EXCEPT ![r].phase[i] = "ready2"]
    /\ ready' = Append(ready, TaskEntry(r, UnitIdx(r, i)))
    /\ op' = NoOp
    /\ UNCHANGED << current_pos, next_routine_id, routines, id_to_routine, name_to_routines,
                    routine_registry, pressed_keys, pressed_mouse_buttons, cur >>

\* the timer of the asyncio.sleep that action i is suspended in fires: the
\* task that executes the action is appended to the ready queue
TimerFire(r, i) ==
    /\ cur = NoUnit
    /\ r \in DOMAIN tasks
    /\ i \in DOMAIN tasks[r].phase
    /\ tasks[r].phase[i] \in {"sleep1", "sleep2"}
    /\ tasks' = [tasks EXCEPT ![r].phase[i] = IF @ = "sleep1" THEN "ready1" ELSE "ready2"]
    /\ ready' = Append(ready, TaskEntry(r, UnitIdx(r, i)))
    /\ op' = NoOp
    /\ UNCHANGED << current_pos, next_routine_id, routines, id_to_routine, name_to_routines,
                    routine_registry, pressed_keys, pressed_mouse_buttons, cur >>

\* a loop that resumes the task of a flagged routine with CancelledError: the
\* action it was suspended in is abandoned and run() leaves its try block
DispatchInterrupting(r, i) ==
    /\ cur = NoUnit
    /\ ready # << >>
    /\ r \in DOMAIN tasks
    /\ i \in DOMAIN tasks[r].phase
    /\ Head(ready) = TaskEntry(r, UnitIdx(r, i))
    /\ tasks[r].phase[i] \in {"ready0", "ready1", "ready2"}
    /\ IF routines[r].cancelled /\ tasks[r].pc = "seq"
       THEN /\ tasks' = [tasks EXCEPT ![r].pc = "finally", ![r].exit = "cancelled"]
            /\ cur' = << r, 0 >>
       ELSE /\ tasks' = [tasks EXCEPT ![r].phase[i] =
                            CASE @ = "ready0" -> "exec0"
                              [] @ = "ready1" -> "exec1"
                              [] @ = "ready2" -> "exec2"]
            /\ cur' = Unit(r, i)
    /\ ready' = Tail(ready)
    /\ op' = NoOp
    /\ UNCHANGED << current_pos, next_routine_id, routines, id_to_routine, name_to_routines,
                    routine_registry, pressed_keys, pressed_mouse_buttons >>

\* the loop runs the task at the head of the ready queue: the task goes on in
\* the action it was created for or suspended in
Dispatch(r, i) ==
    /\ cur = NoUnit
    /\ ready # << >>
    /\ r \in DOMAIN tasks
    /\ i \in DOMAIN tasks[r].phase
    /\ Head(ready) = TaskEntry(r, UnitIdx(r, i))
    /\ tasks[r].phase[i] \in {"ready0", "ready1", "ready2"}
    /\ tasks' = [tasks EXCEPT ![r].phase[i] =
                    CASE @ = "ready0" -> "exec0"
                      [] @ = "ready1" -> "exec1"
                      [] @ = "ready2" -> "exec2"]
    /\ ready' = Tail(ready)
    /\ cur' = Unit(r, i)
    /\ op' = NoOp
    /\ UNCHANGED << current_pos, next_routine_id, routines, id_to_routine, name_to_routines,
                    routine_registry, pressed_keys, pressed_mouse_buttons >>

\* a wait that returns as soon as one member has ended (FIRST_COMPLETED)
GatherCallbackFirstCompleted(r, i) ==
    /\ cur = NoUnit
    /\ ready # << >>
    /\ Head(ready) = CallbackEntry(r, i)
    /\ LET t == tasks[r]
           failed == t.phase[i] # "done"
       IN  IF t.outer # "pending"
           THEN /\ tasks' = [tasks EXCEPT ![r].nfinished = @ + 1]
                /\ ready' = Tail(ready)
           ELSE /\ tasks' = [tasks EXCEPT ![r].nfinished = @ + 1,
                                          ![r].outer = IF failed THEN t.phase[i]
                                                       ELSE "result"]
                /\ ready' = Append(Tail(ready), TaskEntry(r, 0))
    /\ op' = NoOp
    /\ UNCHANGED << current_pos, next_routine_id, routines, id_to_routine, name_to_routines,
                    routine_registry, pressed_keys, pressed_mouse_buttons, cur >>

\* a gather that drains every member before it gives run() the first
\* exception (a wait for ALL_COMPLETED)
GatherCallbackDrained(r, i) ==
    /\ cur = NoUnit
    /\ ready # << >>
    /\ Head(ready) = CallbackEntry(r, i)
    /\ LET t == tasks[r]
           last == t.nfinished + 1 = Len(t.phase)
           raised == {j \in DOMAIN t.phase : t.phase[j] # "done"}
       IN  IF last
           THEN /\ tasks' = [tasks EXCEPT ![r].nfinished = @ + 1,
                                          ![r].outer = IF raised = {} THEN "result"
                                                       ELSE t.phase[i]]
                /\ ready' = Append(Tail(ready), TaskEntry(r, 0))
           ELSE /\ tasks' = [tasks EXCEPT ![r].nfinished = @ + 1]
                /\ ready' = Tail(ready)
    /\ op' = NoOp
    /\ UNCHANGED << current_pos, next_routine_id, routines, id_to_routine, name_to_routines,
                    routine_registry, pressed_keys, pressed_mouse_buttons, cur >>

\* asyncio.gather's done-callback for member i: the first member that ended
\* with an exception gives it to the gather future, the last member to end
\* gives it the results; either wakes run()
GatherCallback(r, i) ==
    /\ cur = NoUnit
    /\ ready # << >>
    /\ Head(ready) = CallbackEntry(r, i)
    /\ LET t == tasks[r]
           failed == t.phase[i] # "done"
       IN  IF t.outer # "pending"
           THEN /\ tasks' = [tasks EXCEPT ![r].nfinished = @ + 1]
                /\ ready' = Tail(ready)
           ELSE IF failed
           THEN /\ tasks' = [tasks EXCEPT ![r].nfinished = @ + 1,
                                          ![r].outer = t.phase[i]]
                /\ ready' = Append(Tail(ready), TaskEntry(r, 0))
           ELSE IF t.nfinished + 1 = Len(t.phase)
           THEN /\ tasks' = [tasks EXCEPT ![r].nfinished = @ + 1,
                                          ![r].outer = "result"]
                /\ ready' = Append(Tail(ready), TaskEntry(r, 0))
           ELSE /\ tasks' = [tasks EXCEPT ![r].nfinished = @ + 1]
                /\ ready' = Tail(ready)
    /\ op' = NoOp
    /\ UNCHANGED << current_pos, next_routine_id, routines, id_to_routine, name_to_routines,
                    routine_registry, pressed_keys, pressed_mouse_buttons, cur >>

\* a wait that cancels the members still pending when one has raised
GatherResumeCancelling(r) ==
    /\ cur = NoUnit
    /\ ready # << >>
    /\ r \in DOMAIN tasks
    /\ Head(ready) = TaskEntry(r, 0)
    /\ tasks[r].pc = "gather"
    /\ ready' = Tail(ready)
    /\ cur' = << r, 0 >>
    /\ IF tasks[r].outer = "result"
       THEN tasks' = [tasks EXCEPT ![r].pc = "loop", ![r].seq = @ + 1,
                                   ![r].phase = << >>]
       ELSE tasks' = [tasks EXCEPT ![r].pc = "finally", ![r].exit = "failed",
                                   ![r].exc = tasks[r].outer,
                                   ![r].phase =
                                       [j \in DOMAIN @ |->
                                           IF @[j] \in {"done", "KeyboardError",
                                                        "MouseMovementError"}
                                           THEN @[j] ELSE "CancelledError"]]
    /\ op' = NoOp
    /\ UNCHANGED << current_pos, next_routine_id, routines, id_to_routine, name_to_routines,
                    routine_registry, pressed_keys, pressed_mouse_buttons >>

\* run() resumes from `await asyncio.gather(*tasks)`: with the results, and
\* goes to the next sequence, or with the member's exception
GatherResume(r) ==
    /\ cur = NoUnit
    /\ ready # << >>
    /\ r \in DOMAIN tasks
    /\ Head(ready) = TaskEntry(r, 0)
    /\ tasks[r].pc = "gather"
    /\ ready' = Tail(ready)
    /\ cur' = << r, 0 >>
    /\ IF tasks[r].outer = "result"
       THEN tasks' = [tasks EXCEPT ![r].pc = "loop", ![r].seq = @ + 1,
                                   ![r].phase = << >>]
       ELSE tasks' = [tasks EXCEPT ![r].pc = "finally", ![r].exit = "failed",
                                   ![r].exc = tasks[r].outer]
    /\ op' = NoOp
    /\ UNCHANGED << current_pos, next_routine_id, routines, id_to_routine, name_to_routines,
                    routine_registry, pressed_keys, pressed_mouse_buttons >>

Next ==
    \/ Return
    \/ \E t \in DOMAIN Catalogue : CreateRoutine(t)
    \/ \E r \in Ids : RoutineCancel(r)
    \/ \E r \in Ids : cancel_by_id(r)
    \/ \E n \in Names : cancel_by_name(n)
    \/ \E c \in Categories : cancel_category(c)
    \/ \E cs \in SUBSET Categories : cancel_all_except(cs)
    \/ \E keyOut \in [pressed_keys -> Outcomes],
          buttonOut \in [pressed_mouse_buttons -> Outcomes] :
            emergency_stop(keyOut, buttonOut)
    \/ \E r \in Ids : RunStart(r)
    \/ \E r \in Ids : LoopStep(r)
    \/ \E r \in Ids : Finally(r)
    \/ \E r \in Ids, i \in 1 .. MaxActions, o \in Outcomes : ExecStart(r, i, o)
    \/ \E r \in Ids, i \in 1 .. MaxActions, o \in Outcomes : ExecResume(r, i, o)
    \/ \E r \in Ids, i \in 1 .. MaxActions : ExecEnd(r, i)
    \/ \E r \in Ids, i \in 1 .. MaxActions : TimerFire(r, i)
    \/ \E r \in Ids, i \in 1 .. MaxActions : Dispatch(r, i)
    \/ \E r \in Ids, i \in 1 .. MaxActions : GatherCallback(r, i)
    \/ \E r \in Ids : GatherResume(r)

Spec == Init /\ [][Next]_vars

\* ------------------------------------------------------------------------
\* Properties
\* ------------------------------------------------------------------------
\* r is between run()'s _register_routine and its _unregister_routine, by
\* where run() stands (not by what the indices hold)
Registered(r) ==
    r \in DOMAIN tasks /\ tasks[r].pc \in {"loop", "seq", "gather", "finally"}

\* every action of the catalogue; the keys and the mouse buttons they name
CatalogueActions ==
    UNION {UNION {{Catalogue[t].sequences[k].actions[i] :
                      i \in DOMAIN Catalogue[t].sequences[k].actions} :
                  k \in DOMAIN Catalogue[t].sequences} : t \in DOMAIN Catalogue}
Keys == {a.key : a \in CatalogueActions} \ {None}
Buttons == {a.button : a \in CatalogueActions} \ {None}

\* C1: when emergency_stop() has ended, no key and no mouse button is held
\* and every routine registered when it was called has its cancellation flag
\* set, whatever the outcome (ok, unavailable, rejected) of each release call.
C1_EmergencyStopClearsAll ==
    op.name = "emergency_stop" =>
        /\ pressed_keys = {}
        /\ pressed_mouse_buttons = {}
        /\ \A r \in DOMAIN tasks : Registered(r) => routines[r].cancelled

\* emergency_stop() has ended after the device rejected a release, with two
\* routines registered
C1_Witness ==
    /\ op.name = "emergency_stop"
    /\ op.set # {}
    /\ \E r1, r2 \in DOMAIN tasks : r1 # r2 /\ Registered(r1) /\ Registered(r2)

\* C2: emergency_stop() never raises: for every held-input state, every set
\* of registered routines and every pattern of outcomes of the release calls
\* it returns normally.
C2_EmergencyStopNeverRaises ==
    op.name = "emergency_stop" => op.ret = None

\* emergency_stop() has ended after the device rejected the release of a key
\* and the release of a mouse button
C2_Witness ==
    /\ op.name = "emergency_stop"
    /\ op.set \cap Keys # {}
    /\ op.set \cap Buttons # {}

\* run() of r has ended because r was cancelled / because an action failed
EndedBy(r, why) == r \in DOMAIN tasks /\ tasks[r].pc = "done" /\ tasks[r].exit = why

\* C3 (as stated): whenever a routine's run() has ended because the routine
\* was cancelled or because one of its actions failed, every key and mouse
\* button that the routine added to the held sets has been removed from them.
C3_NothingLeftHeld ==
    \A r \in DOMAIN tasks :
        (EndedBy(r, "cancelled") \/ EndedBy(r, "failed")) =>
            tasks[r].keys_added = {} /\ tasks[r].buttons_added = {}

\* C3 (amended): run() releases nothing when it ends: the step in which a
\* cancelled or failed run() ends leaves the held-key and held-button sets as
\* they were, so what the routine added and did not release stays held; it
\* is emergency_stop() that removes it: when emergency_stop() has ended, no
\* input that any routine added is still held.
C3_RunEndReleasesNothing ==
    [][/\ \A r \in DOMAIN tasks :
            (tasks[r].pc # "done" /\ tasks'[r].pc = "done"
                /\ tasks'[r].exit \in {"cancelled", "failed"}) =>
                /\ pressed_keys' = pressed_keys
                /\ pressed_mouse_buttons' = pressed_mouse_buttons
                /\ tasks'[r].keys_added = tasks[r].keys_added
                /\ tasks'[r].buttons_added = tasks[r].buttons_added
       /\ op'.name = "emergency_stop" =>
            \A r \in DOMAIN tasks :
                tasks'[r].keys_added = {} /\ tasks'[r].buttons_added = {}]_vars

\* a cancelled run() has ended with a mouse button it pressed still held and
\* a failed run() has ended with a key it pressed still held
C3_Witness ==
    \E r1, r2 \in DOMAIN tasks :
        /\ EndedBy(r1, "cancelled") /\ tasks[r1].buttons_added # {}
        /\ EndedBy(r2, "failed") /\ tasks[r2].keys_added # {}

\* the routines the code's position says are registered under a name / a
\* category
RegisteredUnderName(n) == {r \in DOMAIN tasks : Registered(r) /\ routines[r].name = n}
RegisteredUnderCategory(c) ==
    {r \in DOMAIN tasks : Registered(r) /\ c \in routines[r].categories}

\* what an index holds under a key (nothing when the key is absent)
Lookup(d, k) == IF k \in DOMAIN d THEN d[k] ELSE {}

\* C4: in every reachable state the three registry indices agree: a routine
\* is in the id index, in the name index under its name (when it has one) and
\* in the category index under each of its categories exactly while it is
\* registered (from the start of run() until run()'s cleanup), and in none
\* of them otherwise.
C4_IndicesAgree ==
    /\ \A r \in Ids : (r \in DOMAIN id_to_routine) <=> Registered(r)
    /\ \A r \in DOMAIN id_to_routine : id_to_routine[r] = r
    /\ DOMAIN name_to_routines \subseteq Names
    /\ \A n \in Names : Lookup(name_to_routines, n) = RegisteredUnderName(n)
    /\ DOMAIN routine_registry \subseteq Categories
    /\ \A c \in Categories : Lookup(routine_registry, c) = RegisteredUnderCategory(c)

\* two routines are registered under one category while only one of them is
\* under some other category
C4_Witness ==
    \E c1, c2 \in Categories :
        /\ Cardinality(Lookup(routine_registry, c1)) = 2
        /\ Cardinality(Lookup(routine_registry, c2)) = 1

\* C5: whenever run() has exited, after all its sequences, after seeing the
\* cancellation flag or because an action raised, the routine is in none of
\* the id, name and category indices.
C5_ExitUnregisters ==
    \A r \in DOMAIN tasks :
        tasks[r].pc = "done" =>
            /\ r \notin DOMAIN id_to_routine
            /\ \A n \in DOMAIN name_to_routines : r \notin name_to_routines[n]
            /\ \A c \in DOMAIN routine_registry : r \notin routine_registry[c]

\* a run() has exited by an exception while a routine of the same category
\* is still registered
C5_Witness ==
    \E r1, r2 \in DOMAIN tasks :
        /\ EndedBy(r1, "failed")
        /\ Registered(r2)
        /\ routines[r1].categories \cap routines[r2].categories # {}

\* the step changes no cancellation flag and no registry index
NothingCancelled ==
    UNCHANGED << routines, id_to_routine, name_to_routines, routine_registry >>

\* the registered routine with id i (none when i is not registered)
RegisteredUnderId(i) == {r \in DOMAIN tasks : Registered(r) /\ r = i}

\* the step sets the flag of every routine of T
AllCancelled(T) == \A r \in T : routines'[r].cancelled

\* the step sets the flag of the routines of T and changes no other flag
ExactlyCancelled(T) ==
    \A r \in DOMAIN routines :
        routines'[r].cancelled = (routines[r].cancelled \/ r \in T)

\* C6: cancel_by_id, cancel_by_name and cancel_category return false and
\* change no routine's cancellation flag and no registry index when no
\* routine is registered under the given id, name or category; otherwise
\* they return true and set the cancellation flag of the targeted routines.
C6_CancelReturnsWhetherFound ==
    [][/\ op'.name = "cancel_by_id" =>
            IF RegisteredUnderId(op'.id) = {}
            THEN op'.ret = "False" /\ NothingCancelled
            ELSE op'.ret = "True" /\ AllCancelled(RegisteredUnderId(op'.id))
       /\ op'.name = "cancel_by_name" =>
            IF RegisteredUnderName(op'.key) = {}
            THEN op'.ret = "False" /\ NothingCancelled
            ELSE op'.ret = "True" /\ AllCancelled(RegisteredUnderName(op'.key))
       /\ op'.name = "cancel_category" =>
            IF RegisteredUnderCategory(op'.key) = {}
            THEN op'.ret = "False" /\ NothingCancelled
            ELSE op'.ret = "True" /\ AllCancelled(RegisteredUnderCategory(op'.key))]_vars

\* cancel_by_id has returned false for the id of a routine whose run() has
\* ended, while another routine is registered and not cancelled
C6_Witness ==
    /\ op.name = "cancel_by_id"
    /\ op.ret = "False"
    /\ op.id \in DOMAIN tasks
    /\ tasks[op.id].pc = "done"
    /\ \E r \in DOMAIN tasks : Registered(r) /\ ~routines[r].cancelled

\* C7: cancel_by_id(i), cancel_by_name(n) and cancel_category(c) set the
\* cancellation flag of exactly the registered routines having that id, that
\* name or that category (a routine with several categories is reached through
\* any one of them, all routines sharing a name are reached together) and
\* leave every other routine's flag unchanged.
C7_CancelExactlyTargets ==
    [][/\ op'.name = "cancel_by_id" => ExactlyCancelled(RegisteredUnderId(op'.id))
       /\ op'.name = "cancel_by_name" => ExactlyCancelled(RegisteredUnderName(op'.key))
       /\ op'.name = "cancel_category" =>
            ExactlyCancelled(RegisteredUnderCategory(op'.key))]_vars

\* cancel_category has returned with a registered routine of that category
\* (which has a second category) cancelled and a registered routine outside
\* the category not cancelled
C7_Witness ==
    /\ op.name = "cancel_category"
    /\ \E r1, r2 \in DOMAIN tasks :
        /\ Registered(r1) /\ Registered(r2)
        /\ op.key \in routines[r1].categories
        /\ Cardinality(routines[r1].categories) > 1
        /\ routines[r1].cancelled
        /\ op.key \notin routines[r2].categories
        /\ ~routines[r2].cancelled

\* C8: cancel_all_except(E) sets the cancellation flag of every registered
\* routine that belongs to none of the categories in E and leaves unchanged
\* the flag of every registered routine that belongs to at least one category
\* in E; with E empty it cancels every registered routine.
C8_CancelAllExcept ==
    [][op'.name = "cancel_all_except" =>
        /\ \A r \in DOMAIN tasks :
            Registered(r) =>
                IF routines[r].categories \cap op'.set = {}
                THEN routines'[r].cancelled
                ELSE routines'[r].cancelled = routines[r].cancelled
        /\ op'.set = {} => \A r \in DOMAIN tasks : Registered(r) => routines'[r].cancelled]_vars

\* cancel_all_except has returned, for two exempt categories, with a
\* registered routine of only one of them not cancelled and a registered
\* routine of neither cancelled
C8_Witness ==
    /\ op.name = "cancel_all_except"
    /\ Cardinality(op.set) = 2
    /\ \E r1, r2 \in DOMAIN tasks :
        /\ Registered(r1) /\ Registered(r2)
        /\ Cardinality(routines[r1].categories \cap op.set) = 1
        /\ ~routines[r1].cancelled
        /\ routines[r2].categories \cap op.set = {}
        /\ routines[r2].cancelled

\* r is inside a sequence: executing it, or it broke off with an exception
InSequence(r) == r \in DOMAIN tasks /\ tasks[r].phase # << >>

\* the sequence that tasks[r].calls belongs to: the one r is inside, or the
\* one it has just left
CallsSeq(r) == IF tasks[r].phase = << >> THEN tasks[r].seq - 1 ELSE tasks[r].seq

PhaseNames ==
    {"pending", "ready0", "exec0", "sleep1", "ready1", "exec1", "sleep2", "ready2",
     "exec2", "done"}

\* the task executing action i has gone on after an asyncio.sleep(duration)
Resumed(r, i) ==
    LET a == CurSeq(r).actions[i]
        ph == tasks[r].phase[i]
    IN  \/ ph \in {"exec1", "exec2"}
        \/ ph \in {"sleep2", "ready2"} /\ SleepsInside(a)
        \/ ph = "done" /\ (SleepsInside(a) \/ HasTrailingHold(a))
        \/ ph \notin PhaseNames /\ NumCalls(r, i) = 2

\* C9: in every sequential ActionSequence the device call of the n-th action
\* happens before the device call of the (n+1)-th action, and each action,
\* its trailing hold included, has fully completed before the next starts.
C9_SequentialOrder ==
    \A r \in DOMAIN tasks :
        /\ (InSequence(r) /\ ~CurSeq(r).parallel) =>
              \A i, j \in DOMAIN tasks[r].phase :
                  (i < j /\ tasks[r].phase[j] # "pending") => tasks[r].phase[i] = "done"
        /\ (tasks[r].calls # << >> /\ ~routines[r].sequences[CallsSeq(r)].parallel) =>
              \A m, n \in DOMAIN tasks[r].calls :
                  m < n => tasks[r].calls[m] <= tasks[r].calls[n]

\* in a sequential sequence the first action, which has a trailing hold, has
\* made both its calls and completed, and the second action has made its call
C9_Witness ==
    \E r \in DOMAIN tasks :
        /\ InSequence(r)
        /\ ~CurSeq(r).parallel
        /\ HasTrailingHold(CurSeq(r).actions[1])
        /\ tasks[r].phase[1] = "done"
        /\ tasks[r].calls = << 1, 1, 2 >>

\* the place of an entry in the ready queue
Pos(e) == CHOOSE n \in DOMAIN ready : ready[n] = e

\* C10: in every parallel ActionSequence one unit of work per member is
\* launched, in list order, before any is awaited, and every member's first
\* device call has been issued before any member goes on after a sleep of its
\* duration.
C10_ParallelLaunch ==
    \A r \in DOMAIN tasks :
        (InSequence(r) /\ CurSeq(r).parallel) =>
            /\ \A i \in DOMAIN tasks[r].phase : tasks[r].phase[i] # "pending"
            /\ \A i, j \in DOMAIN tasks[r].phase :
                  (i < j /\ tasks[r].phase[j] = "ready0" /\ tasks[r].phase[i] = "ready0") =>
                      /\ InReady(TaskEntry(r, i))
                      /\ InReady(TaskEntry(r, j))
                      /\ Pos(TaskEntry(r, i)) < Pos(TaskEntry(r, j))
            /\ \A i, j \in DOMAIN tasks[r].phase :
                  (i < j /\ tasks[r].phase[j] # "ready0") => tasks[r].phase[i] # "ready0"
            /\ \A i, j \in DOMAIN tasks[r].phase :
                  (Resumed(r, i) /\ FirstCall(CurSeq(r).actions[j]) # None) =>
                      NumCalls(r, j) >= 1

\* in a parallel sequence the first member has gone on after its sleep and is
\* about to make its second call; the second member's call was issued before
C10_Witness ==
    \E r \in DOMAIN tasks :
        /\ InSequence(r)
        /\ CurSeq(r).parallel
        /\ tasks[r].phase[1] = "exec1"
        /\ tasks[r].calls = << 1, 2 >>

\* the sequences of r that run() has entered so far
Entered(r) == DOMAIN tasks[r].completed

\* C11: within one routine the sequences execute strictly in list order: no
\* action of sequence k+1 starts until every action of sequence k, every
\* member of a parallel sequence and every trailing hold included, has
\* completed.
C11_SequencesInOrder ==
    \A r \in DOMAIN tasks :
        /\ Entered(r) = 1 .. Len(tasks[r].completed)
        /\ InSequence(r) => tasks[r].seq = Len(tasks[r].completed)
        /\ \A k \in Entered(r) :
              k > 1 => tasks[r].completed[k - 1] = Len(routines[r].sequences[k - 1].actions)

\* the first action of the second sequence is executing after a parallel
\* first sequence whose members, one with a trailing hold, have all completed
C11_Witness ==
    \E r \in DOMAIN tasks :
        /\ tasks[r].pc = "seq"
        /\ tasks[r].seq = 2
        /\ tasks[r].phase[1] = "exec0"
        /\ routines[r].sequences[1].parallel
        /\ \E i \in DOMAIN routines[r].sequences[1].actions :
              HasTrailingHold(routines[r].sequences[1].actions[i])

\* C12: cancellation is cooperative and observed at sequence boundaries:
\* once a routine's flag is set run() starts no further sequence of it, and
\* setting the flag terminates nothing that is in progress (the routine's
\* tasks stay where they are and stay scheduled).
C12_CooperativeCancellation ==
    [][\A r \in DOMAIN tasks :
        /\ routines[r].cancelled => Len(tasks'[r].completed) = Len(tasks[r].completed)
        /\ (~routines[r].cancelled /\ routines'[r].cancelled) =>
              /\ tasks'[r].pc = tasks[r].pc
              /\ tasks'[r].seq = tasks[r].seq
              /\ tasks'[r].phase = tasks[r].phase
              /\ ready' = ready]_vars

\* a routine cancelled during the wait of its sequence has gone on with the
\* sequence: the action after the wait is executing
C12_Witness ==
    \E r \in DOMAIN tasks :
        /\ routines[r].cancelled
        /\ tasks[r].pc = "seq"
        /\ CurSeq(r).actions[2].type = "wait"
        /\ tasks[r].phase[2] = "done"
        /\ tasks[r].phase[3] = "exec0"

\* C13: cancel() sets the routine's flag and, when the routine's run() is in
\* flight, interrupts the unit of work executing it, so that the interruption
\* reaches the routine while it is suspended inside a sequence: no action of
\* a cancelled routine goes on normally after the sleep it was suspended in.
C13_CancelInterrupts ==
    \A r \in DOMAIN tasks :
        (routines[r].cancelled /\ tasks[r].pc \in {"seq", "gather"}) =>
            \A i \in DOMAIN tasks[r].phase : tasks[r].phase[i] \notin {"exec1", "exec2"}

\* the exceptions an action raises on a device failure
ActionErrors == {"KeyboardError", "MouseMovementError"}

\* an action of the sequential sequence r is in, or ended in, has raised
RaisedInSequential(r) ==
    /\ r \in DOMAIN tasks
    /\ tasks[r].phase # << >>
    /\ ~IsParallel(routines[r].sequences[tasks[r].seq])
    /\ \E i \in DOMAIN tasks[r].phase : tasks[r].phase[i] \in ActionErrors

\* C18: a device failure in an action of a sequential sequence stops the
\* remaining actions of that sequence and all later sequences of the routine
\* and is re-raised to the caller of run(): run() is in or past its finally
\* clause with that exception, the actions after the failing one were never
\* started and no later sequence was entered.  It does not trigger
\* emergency-stop: the failing step and the end of run() leave the held sets,
\* what the routine added to them and every routine's cancellation flag as
\* they were.
C18_FailureStopsRun ==
    /\ [](\A r \in DOMAIN tasks :
            RaisedInSequential(r) =>
                LET t == tasks[r]
                IN  /\ t.pc \in {"finally", "done"}
                    /\ t.exit = "failed"
                    /\ t.exc \in ActionErrors
                    /\ Len(t.completed) = t.seq
                    /\ \E i \in DOMAIN t.phase :
                          /\ t.phase[i] = t.exc
                          /\ t.completed[t.seq] = i - 1
                          /\ \A j \in DOMAIN t.phase :
                                /\ j < i => t.phase[j] = "done"
                                /\ j > i => t.phase[j] = "pending" /\ NumCalls(r, j) = 0)
    /\ [][\A r \in DOMAIN tasks :
              (RaisedInSequential(r)' /\ tasks[r].pc # "done") =>
                  /\ pressed_keys' = pressed_keys
                  /\ pressed_mouse_buttons' = pressed_mouse_buttons
                  /\ tasks'[r].keys_added = tasks[r].keys_added
                  /\ tasks'[r].buttons_added = tasks[r].buttons_added
                  /\ routines' = routines]_vars

\* the key-up of the tap that starts a sequential sequence was rejected:
\* run() has re-raised KeyboardError, the key is still held, the actions after
\* the tap and the next sequence were not started, and another routine is
\* registered and not cancelled
C18_Witness ==
    \E r, r2 \in DOMAIN tasks :
        /\ r # r2
        /\ EndedBy(r, "failed")
        /\ RaisedInSequential(r)
        /\ tasks[r].exc = "KeyboardError"
        /\ tasks[r].phase[1] = "KeyboardError"
        /\ tasks[r].phase[2] = "pending"
        /\ tasks[r].keys_added # {}
        /\ tasks[r].seq < Len(routines[r].sequences)
        /\ Registered(r2)
        /\ ~routines[r2].cancelled

\* C20: every create_routine call returns a routine whose id is strictly
\* greater than the id of every routine created earlier by the controller:
\* the id is the counter's value before the call, the counter only grows and
\* the ids handed out so far are exactly the numbers below it, whether or not
\* their routines have finished; and a routine is in none of the registry
\* indices until its run() starts.
C20_MonotonicIds ==
    /\ DOMAIN routines = 0 .. (next_routine_id - 1)
    /\ DOMAIN tasks = DOMAIN routines
    /\ op.name = "create_routine" =>
          /\ op.id = next_routine_id - 1
          /\ \A r \in DOMAIN routines : r # op.id => r < op.id
          /\ tasks[op.id].pc = "created"
          /\ ~routines[op.id].cancelled
    /\ \A r \in DOMAIN tasks :
          tasks[r].pc = "created" =>
              /\ r \notin DOMAIN id_to_routine
              /\ \A n \in DOMAIN name_to_routines : r \notin name_to_routines[n]
              /\ \A c \in DOMAIN routine_registry : r \notin routine_registry[c]

\* create_routine has returned a second routine after the run() of the
\* first one has ended
C20_Witness ==
    /\ op.name = "create_routine"
    /\ op.id = 1
    /\ tasks[0].pc = "done"
    /\ routines[1].name # None

\* ------------------------------------------------------------------------
\* Actions executed directly: await controller._execute_action(action)
\* ------------------------------------------------------------------------
\* largest pointer coordinate explored, either sign
MaxCoord == 2

\* the key and button actions a caller can hand to _execute_action
DirectActions ==
    UNION {{KeyPress(k), KeyRelease(k), KeyTap(k, 1)} : k \in Keys}
    \cup UNION {{MousePress(b), MouseRelease(b), MouseClick(b, 1)} : b \in Buttons}

\* the n-th xdotool call of an action
CallOf(a, n) == IF n = 1 THEN FirstCall(a) ELSE SecondCall(a)

\* op after a direct call: the xdotool command, which call of the action it
\* was, the input, its outcome, what was raised, and the state before it
DeviceRecord(call, n, a, o, exc) ==
    [name |-> call, id |-> n,
     key |-> IF a.key # None THEN a.key ELSE a.button,
     set |-> {}, ret |-> exc, outcome |-> o, type |-> a.type,
     keys |-> pressed_keys, buttons |-> pressed_mouse_buttons, pos |-> current_pos,
     dx |-> IF a.type = "mouse_move" THEN a.dx ELSE 0,
     dy |-> IF a.type = "mouse_move" THEN a.dy ELSE 0]

\* the n-th xdotool call of a key or button action with outcome o and the
\* update of the held sets after it, the action being executed on its own
ExecuteDirect(a, n, o) ==
    /\ cur = NoUnit
    /\ cur' = CallerUnit
    /\ CallOf(a, n) # None
    /\ LET dev == DeviceCall(CallOf(a, n), a, o)
       IN  /\ pressed_keys' = dev.keys
           /\ pressed_mouse_buttons' = dev.buttons
           /\ op' = DeviceRecord(CallOf(a, n), n, a, o, dev.exc)
    /\ UNCHANGED << current_pos, next_routine_id, routines, id_to_routine,
                    name_to_routines, routine_registry, tasks, ready >>

\* _execute_mouse_move(MouseMove(dx, dy)) with outcome o
ExecuteMouseMoveDirect(dx, dy, o) ==
    /\ cur = NoUnit
    /\ cur' = CallerUnit
    /\ LET a == MouseMove(dx, dy, 1)
           res == ExecuteMouseMove(current_pos, a, o)
       IN  /\ res.pos[1] \in -MaxCoord .. MaxCoord
           /\ res.pos[2] \in -MaxCoord .. MaxCoord
           /\ current_pos' = res.pos
           /\ op' = DeviceRecord("mousemove_relative", 1, a, o, res.exc)
    /\ UNCHANGED << next_routine_id, routines, id_to_routine, name_to_routines,
                    routine_registry, pressed_keys, pressed_mouse_buttons, tasks, ready >>

\* a controller with no routine and any inputs held
DeviceInit ==
    /\ next_routine_id = 0
    /\ routines = << >>
    /\ id_to_routine = << >>
    /\ name_to_routines = << >>
    /\ routine_registry = << >>
    /\ pressed_keys \in SUBSET Keys
    /\ pressed_mouse_buttons \in SUBSET Buttons
    /\ current_pos = << 0, 0 >>
    /\ tasks = << >>
    /\ ready = << >>
    /\ cur = NoUnit
    /\ op = NoOp

DeviceNext ==
    \/ Return
    \/ \E a \in DirectActions, n \in 1 .. 2, o \in Outcomes : ExecuteDirect(a, n, o)
    \/ \E dx \in MoveTenths, dy \in MoveTenths, o \in Outcomes :
          ExecuteMouseMoveDirect(dx, dy, o)
    \/ \E keyOut \in [pressed_keys -> Outcomes],
          buttonOut \in [pressed_mouse_buttons -> Outcomes] :
            emergency_stop(keyOut, buttonOut)

DeviceSpec == DeviceInit /\ [][DeviceNext]_vars

\* op records a direct xdotool call
IsDeviceOp ==
    op.name \in {"keydown", "keyup", "mousedown", "mouseup", "mousemove_relative"}

\* C14: press and release are idempotent on held-input state: pressing a key
\* or button that is already held leaves the set unchanged (no duplicate
\* membership) and releasing one that is not held leaves the set unchanged.
C14_Idempotent ==
    /\ (op.name = "keydown" /\ op.key \in op.keys) =>
          pressed_keys = op.keys /\ Cardinality(pressed_keys) = Cardinality(op.keys)
    /\ (op.name = "keyup" /\ op.key \notin op.keys) => pressed_keys = op.keys
    /\ (op.name = "mousedown" /\ op.key \in op.buttons) =>
          /\ pressed_mouse_buttons = op.buttons
          /\ Cardinality(pressed_mouse_buttons) = Cardinality(op.buttons)
    /\ (op.name = "mouseup" /\ op.key \notin op.buttons) =>
          pressed_mouse_buttons = op.buttons

\* a press of a key that was already held has succeeded
C14_Witness ==
    /\ op.name = "keydown"
    /\ op.type = "press"
    /\ op.outcome = "ok"
    /\ op.key \in op.keys

\* C15 (as stated): every press adds its key or button to the held sets and
\* every release removes it, whether the device call succeeded, was
\* unavailable or was rejected.
C15_PressAddsReleaseRemoves ==
    /\ op.name = "keydown" => op.key \in pressed_keys
    /\ op.name = "keyup" => op.key \notin pressed_keys
    /\ op.name = "mousedown" => op.key \in pressed_mouse_buttons
    /\ op.name = "mouseup" => op.key \notin pressed_mouse_buttons

\* C15 (amended): a press adds and a release removes when the device call
\* succeeded or the driver was unavailable; when the device rejected the call
\* the input is held after it exactly if it was held before; emergency_stop
\* alone removes every input whatever the outcomes.
C15_AddsRemovesUnlessRejected ==
    /\ (IsDeviceOp /\ op.outcome # "rejected") =>
          /\ op.name = "keydown" => pressed_keys = op.keys \cup {op.key}
          /\ op.name = "keyup" => pressed_keys = op.keys \ {op.key}
          /\ op.name = "mousedown" => pressed_mouse_buttons = op.buttons \cup {op.key}
          /\ op.name = "mouseup" => pressed_mouse_buttons = op.buttons \ {op.key}
    /\ (IsDeviceOp /\ op.outcome = "rejected") =>
          /\ op.name \in {"keydown", "keyup"} =>
                (op.key \in pressed_keys <=> op.key \in op.keys)
          /\ op.name \in {"mousedown", "mouseup"} =>
                (op.key \in pressed_mouse_buttons <=> op.key \in op.buttons)
    /\ op.name = "emergency_stop" => pressed_keys = {} /\ pressed_mouse_buttons = {}

\* the release of a held key was rejected and the key is still held
C15_Witness ==
    /\ op.name = "keyup"
    /\ op.type = "release"
    /\ op.outcome = "rejected"
    /\ op.key \in op.keys
    /\ op.key \in pressed_keys

\* C16: when the device rejects a command outside emergency_stop, a key
\* press, release or tap raises KeyboardError and a mouse move, press,
\* release or click raises MouseMovementError, and the failing call leaves
\* held-input state (and the tracked position) exactly as it was before it.
C16_RejectedRaisesTyped ==
    (IsDeviceOp /\ op.outcome = "rejected") =>
        /\ op.type \in {"press", "release", "tap"} => op.ret = "KeyboardError"
        /\ op.type \in {"mouse_move", "mouse_press", "mouse_release", "mouse_click"} =>
              op.ret = "MouseMovementError"
        /\ pressed_keys = op.keys
        /\ pressed_mouse_buttons = op.buttons
        /\ current_pos = op.pos

\* the key-up of a tap was rejected: the key the tap pressed is still held
C16_Witness ==
    /\ op.name = "keyup"
    /\ op.type = "tap"
    /\ op.outcome = "rejected"
    /\ op.key \in pressed_keys

\* C17: when the driver is unavailable, press, release, tap and mouse actions
\* raise nothing and update held-input state and the tracked pointer position
\* exactly as if the device call had succeeded.
C17_UnavailableIsSoft ==
    (IsDeviceOp /\ op.outcome = "unavailable") =>
        /\ op.ret = NoExc
        /\ pressed_keys =
              CASE op.name = "keydown" -> op.keys \cup {op.key}
                [] op.name = "keyup" -> op.keys \ {op.key}
                [] OTHER -> op.keys
        /\ pressed_mouse_buttons =
              CASE op.name = "mousedown" -> op.buttons \cup {op.key}
                [] op.name = "mouseup" -> op.buttons \ {op.key}
                [] OTHER -> op.buttons
        /\ current_pos =
              IF op.name = "mousemove_relative"
              THEN << op.pos[1] + IntOf(op.dx), op.pos[2] + IntOf(op.dy) >>
              ELSE op.pos

\* a mouse move with the driver unavailable has moved the tracked position
C17_Witness ==
    /\ op.name = "mousemove_relative"
    /\ op.outcome = "unavailable"
    /\ current_pos # op.pos

\* ------------------------------------------------------------------------
\* Routines run one after another on a device that accepts every command
\* ------------------------------------------------------------------------
\* await routine.run() with no other routine running and nothing held
ScenarioRunStart(r) ==
    /\ \A r2 \in DOMAIN tasks : ~Registered(r2)
    /\ pressed_keys = {}
    /\ pressed_mouse_buttons = {}
    /\ RunStart(r)

ScenarioNext ==
    \/ Return
    \/ \E t \in DOMAIN Catalogue : CreateRoutine(t)
    \/ \E r \in Ids : ScenarioRunStart(r)
    \/ \E r \in Ids : LoopStep(r)
    \/ \E r \in Ids : Finally(r)
    \/ \E r \in Ids, i \in 1 .. MaxActions : ExecStart(r, i, "ok")
    \/ \E r \in Ids, i \in 1 .. MaxActions : ExecResume(r, i, "ok")
    \/ \E r \in Ids, i \in 1 .. MaxActions : ExecEnd(r, i)
    \/ \E r \in Ids, i \in 1 .. MaxActions : TimerFire(r, i)
    \/ \E r \in Ids, i \in 1 .. MaxActions : Dispatch(r, i)
    \/ \E r \in Ids, i \in 1 .. MaxActions : GatherCallback(r, i)
    \/ \E r \in Ids : GatherResume(r)

ScenarioSpec == Init /\ [][ScenarioNext]_vars

\* the first sequence of r is the sequential [press(K), wait(d), release(K)]
IsPressWaitRelease(r) ==
    LET q == routines[r].sequences[1]
    IN  /\ ~q.parallel
        /\ Len(q.actions) = 3
        /\ q.actions[1].type = "press"
        /\ q.actions[2].type = "wait"
        /\ q.actions[3].type = "release"
        /\ q.actions[3].key = q.actions[1].key

\* every action of routine r
ActionsOf(r) ==
    UNION {{routines[r].sequences[k].actions[i] :
               i \in DOMAIN routines[r].sequences[k].actions} :
           k \in DOMAIN routines[r].sequences}

\* r has a release for every key and every button it presses (a tap and a
\* click release their own)
ReleasesWhatItPresses(r) ==
    /\ \A a \in ActionsOf(r) :
          a.type = "press" => \E b \in ActionsOf(r) : b.type = "release" /\ b.key = a.key
    /\ \A a \in ActionsOf(r) :
          a.type = "mouse_press" =>
              \E b \in ActionsOf(r) : b.type = "mouse_release" /\ b.button = a.button

\* C19: on a succeeding device and from empty held-input state, a routine
\* with the sequential sequence [press(K), wait(d), release(K)] issues
\* key-down(K), K is held and no key-up has been issued for as long as the
\* wait has not completed, the key-up is issued only when the wait has slept
\* and returned, and the run ends with nothing held; likewise every routine
\* that releases each key and button it presses ends with nothing held.
C19_PressWaitRelease ==
    /\ [](\A r \in DOMAIN tasks :
            /\ (IsPressWaitRelease(r) /\ tasks[r].pc = "seq" /\ tasks[r].seq = 1) =>
                  LET K == routines[r].sequences[1].actions[1].key
                      ph == tasks[r].phase
                  IN  /\ ph[2] # "pending" => ph[1] = "done"
                      /\ ph[3] # "pending" => ph[2] = "done"
                      /\ ph[1] = "done" =>
                            K \in pressed_keys /\ tasks[r].calls = << 1 >>
            /\ (ReleasesWhatItPresses(r) /\ tasks[r].pc \in {"finally", "done"}) =>
                  /\ tasks[r].exit = "completed"
                  /\ tasks[r].keys_added = {}
                  /\ tasks[r].buttons_added = {}
                  /\ IsPressWaitRelease(r) => tasks[r].calls = << 1, 3 >>
                  /\ (\A r2 \in DOMAIN tasks : r2 # r => ~Registered(r2)) =>
                        pressed_keys = {} /\ pressed_mouse_buttons = {})
    /\ [][\A r \in DOMAIN tasks :
              (IsPressWaitRelease(r) /\ tasks[r].pc = "seq" /\ tasks[r].seq = 1) =>
                  \* the release starts in the step in which the wait, resumed
                  \* after its sleep, returns
                  /\ (tasks[r].phase[3] = "pending" /\ tasks'[r].pc = "seq"
                        /\ tasks'[r].phase[3] # "pending") => tasks[r].phase[2] = "exec1"
                  \* the wait resumes only from a sleep whose timer has fired
                  /\ (tasks[r].phase[2] # "exec1" /\ tasks'[r].pc = "seq"
                        /\ tasks'[r].phase[2] = "exec1") =>
                        tasks[r].phase[2] = "ready1"
                  /\ (tasks[r].phase[2] # "ready1" /\ tasks'[r].pc = "seq"
                        /\ tasks'[r].phase[2] = "ready1") =>
                        tasks[r].phase[2] = "sleep1"
                  \* the key-up is the call of the release action
                  /\ (tasks'[r].pc = "seq" /\ tasks'[r].calls # tasks[r].calls) =>
                        tasks'[r].calls = << 1 >>
                  /\ (tasks'[r].pc # "seq" /\ tasks'[r].calls # tasks[r].calls) =>
                        /\ tasks[r].phase[3] = "exec0"
                        /\ tasks'[r].calls = << 1, 3 >>
                        /\ pressed_keys' = pressed_keys \
                                              {routines[r].sequences[1].actions[1].key}]_vars

\* the wait of [press(K), wait(d), release(K)] is asleep with K held
C19_Witness ==
    \E r \in DOMAIN tasks :
        /\ IsPressWaitRelease(r)
        /\ tasks[r].pc = "seq"
        /\ tasks[r].phase[2] = "sleep1"
        /\ routines[r].sequences[1].actions[1].key \in pressed_keys

\* ------------------------------------------------------------------------
\* run() awaited again on a routine whose run() has exited
\* ------------------------------------------------------------------------
\* Routine.run on a routine that has run before: nothing in run() looks at
\* whether it ran already; it registers and enters its for loop again.
\* tasks[r].exit keeps how the earlier run() ended until this one ends.
RunAgain(r) ==
    /\ cur = NoUnit
    /\ r \in DOMAIN routines
    /\ tasks[r].pc = "done"
    /\ \A i \in DOMAIN tasks[r].phase : tasks[r].phase[i] \notin
          {"ready0", "exec0", "sleep1", "ready1", "exec1", "sleep2", "ready2", "exec2"}
    /\ LET reg == RegisterRoutine(r)
       IN  /\ id_to_routine' = reg.ids
           /\ name_to_routines' = reg.names
           /\ routine_registry' = reg.cats
    /\ tasks' = [tasks EXCEPT ![r].pc = "loop", ![r].seq = 1, ![r].phase = << >>,
                              ![r].calls = << >>, ![r].completed = << >>]
    /\ cur' = << r, 0 >>
    /\ op' = OpRecord("run", r, None, {}, None)
    /\ UNCHANGED << current_pos, next_routine_id, routines, pressed_keys,
                    pressed_mouse_buttons, ready >>

RerunNext ==
    \/ ScenarioNext
    \/ \E r \in Ids : RoutineCancel(r)
    \/ \E r \in Ids : RunAgain(r)

RerunSpec == Init /\ [][RerunNext]_vars

\* C21: a routine whose run() has exited is terminal: it is never registered
\* again and none of its sequences is executed a second time, whatever is
\* invoked afterwards, a second run() included.
C21_TerminalAfterExit ==
    \A r \in DOMAIN tasks :
        tasks[r].exit # None =>
            /\ tasks[r].pc \in {"finally", "done"}
            /\ tasks[r].pc = "done" => r \notin DOMAIN id_to_routine
            /\ Len(tasks[r].completed) <= Len(routines[r].sequences)

\* ------------------------------------------------------------------------
\* _execute_turn, executed directly: await controller._execute_action(Turn)
\* ------------------------------------------------------------------------
\* the turns the callers make: degrees, durations (tenths of a second) and
\* the configured steps_per_second
TurnDegrees == {90, -90, 45}
TurnDurations == {0, 1, 10}
TurnStepsPerSecond == {4, 60}

\* the task that is inside _execute_turn
TurnUnit == <<"turn">>

\* op while a turn is executed: the action, the configuration, the steps
\* made so far with the dx of each (tenths of a pixel) and the position at
\* the start; ret is None until _execute_action returns or raises
TurnRecord(degrees, duration, steps) ==
    [name |-> "turn", id |-> 0, key |-> None, set |-> {}, ret |-> None,
     degrees |-> degrees, duration |-> duration, steps |-> steps,
     total_steps |-> TotalSteps(duration, steps), deltas |-> << >>, pos |-> current_pos]

\* _execute_action(Turn(degrees, duration)) up to the for loop of
\* _execute_turn; turns are made with the tracked position at the origin
TurnStart(degrees, duration, steps) ==
    /\ cur = NoUnit
    /\ current_pos = << 0, 0 >>
    /\ cur' = TurnUnit
    /\ op' = TurnRecord(degrees, duration, steps)
    /\ UNCHANGED << current_pos, next_routine_id, routines, id_to_routine, name_to_routines,
                    routine_registry, pressed_keys, pressed_mouse_buttons, tasks, ready >>

\* one iteration of the for loop: _execute_mouse_move(MouseMove(dx =
\* pixels_this_step, dy = 0, duration = 0)) with outcome o, then
\* asyncio.sleep(duration / total_steps); a rejected move raises
\* MouseMovementError out of _execute_turn and _execute_action
TurnStep(o) ==
    /\ cur = TurnUnit
    /\ Len(op.deltas) < op.total_steps
    /\ LET pixels_this_step == PixelsThisStep(op.degrees, op.total_steps, Len(op.deltas))
           res == ExecuteMouseMove(current_pos, MouseMove(pixels_this_step, 0, 0), o)
       IN  /\ current_pos' = res.pos
           /\ IF res.exc # NoExc
              THEN /\ op' = [op EXCEPT !.ret = res.exc]
                   /\ cur' = CallerUnit
              ELSE /\ op' = [op EXCEPT !.deltas = Append(@, pixels_this_step)]
                   /\ cur' = cur
    /\ UNCHANGED << next_routine_id, routines, id_to_routine, name_to_routines,
                    routine_registry, pressed_keys, pressed_mouse_buttons, tasks, ready >>

\* range(total_steps) is exhausted: "Turn completed", _execute_turn returns
TurnEnd ==
    /\ cur = TurnUnit
    /\ Len(op.deltas) = op.total_steps
    /\ op' = [op EXCEPT !.ret = "returned"]
    /\ cur' = CallerUnit
    /\ UNCHANGED << current_pos, next_routine_id, routines, id_to_routine, name_to_routines,
                    routine_registry, pressed_keys, pressed_mouse_buttons, tasks, ready >>

TurnNext ==
    \/ Return
    \/ \E degrees \in TurnDegrees, duration \in TurnDurations, steps \in TurnStepsPerSecond :
          TurnStart(degrees, duration, steps)
    \/ \E o \in Outcomes : TurnStep(o)
    \/ TurnEnd

TurnSpec == Init /\ [][TurnNext]_vars

RECURSIVE SumSeq(_)
SumSeq(s) == IF s = << >> THEN 0 ELSE Head(s) + SumSeq(Tail(s))

\* a turn of at least one step has returned
TurnReturned == op.name = "turn" /\ op.ret = "returned" /\ op.total_steps >= 1

\* the part of C22 about the number and the shape of the moves: exactly
\* floor(T * S) moves, delta 0 at the first step, the largest at the midpoint
TurnShape ==
    TurnReturned =>
        /\ Len(op.deltas) = (op.duration * op.steps) \div 10
        /\ (op.duration = 10 /\ op.steps = 60) => Len(op.deltas) = 60
        /\ op.deltas[1] = 0
        /\ \A i \in DOMAIN op.deltas :
              Abs(op.deltas[i]) <= Abs(op.deltas[(Len(op.deltas) \div 2) + 1])

\* C22: turn(degrees = D, duration = T) with steps_per_second = S is
\* decomposed into exactly floor(T * S) pointer moves whose deltas sum, within
\* a tolerance of one per cent, to D * pixels_per_degree, with delta 0 at the
\* first step and at the last step and the largest delta at the midpoint.
C22_TurnDecomposition ==
    /\ TurnShape
    /\ TurnReturned =>
          /\ Abs(SumSeq(op.deltas) - TotalPixels(op.degrees)) * 100
                <= Abs(TotalPixels(op.degrees))
          /\ op.deltas[Len(op.deltas)] = 0

\* C25: a turn whose step count floor(duration * steps_per_second) is 0, a
\* turn of duration 0 in particular, is rejected: _execute_action does not
\* return normally from it.
C25_ZeroStepTurnRejected ==
    (op.name = "turn" /\ op.ret # None /\ (op.duration * op.steps) \div 10 = 0) =>
        op.ret # "returned"

\* ------------------------------------------------------------------------
\* Building a routine: parallel_actions / sequential_actions / add_actions
\* ------------------------------------------------------------------------
\* the longest list of actions and the most sequences a caller builds
MaxGroupLen == 2
MaxSequences == 2

\* InputAction(type = kind): an action of the base class
InputAction(kind) ==
    [type |-> kind, key |-> None, button |-> None, duration |-> NoDuration]

\* models.py MouseButton
MouseButtons == {"left", "right", "middle"}

\* what pydantic checks when an action is constructed: the declared field
\* types.  type is any str, key any str, duration any float (all durations
\* here are numbers), button a member of MouseButton.
Validates(a) ==
    /\ a.type \in {"press", "release", "tap"} => a.key # None
    /\ a.type \in {"mouse_press", "mouse_release", "mouse_click"} =>
          a.button \in MouseButtons

\* the actions the callers add through the methods of an ActionGroup:
\* press / release of a key, press(""), wait(-0.5), mouse_press("side")
GroupCalls ==
    {KeyPress("forward"), KeyRelease("forward"), KeyPress(""), Wait(-5),
     MousePress("side")}

\* the lists of ready-made actions the callers hand to add_actions
ActionLibrary ==
    {<< KeyTap("action", 1), KeyPress("forward") >>,
     << KeyTap("action", 0), KeyPress("forward") >>,
     << Turn(90, 1), KeyPress("forward") >>,
     << MouseMove(15, -4, 1), KeyPress("forward") >>,
     << MouseClick("left", 1), KeyPress("forward") >>,
     << Wait(1), KeyPress("forward") >>,
     << KeyPress("forward"), KeyRelease("forward") >>,
     << MousePress("left"), MouseRelease("left") >>,
     << InputAction("bogus") >>}

\* the caller inside a `with routine.parallel_actions() as actions:` block
ScopeUnit == <<"scope">>

\* a group that puts each new action in front of the others
GroupPrepend(actions, a) == << a >> \o actions

\* ActionGroup.press / release / tap / ...: self.actions.append(action)
GroupAppend(actions, a) == Append(actions, a)

\* self.sequences.append(ActionSequence(actions = ..., parallel = ...))
AppendSequence(sequences, actions, parallel) ==
    Append(sequences, ActionSequence(actions, parallel))

\* controller.create_routine() with no name and no categories: the routine
\* has no sequences yet
CreateEmpty ==
    /\ cur = NoUnit
    /\ cur' = CallerUnit
    /\ next_routine_id = 0
    /\ LET routine_id == next_routine_id
       IN  /\ next_routine_id' = next_routine_id + 1
           /\ routines' = DictPut(routines, routine_id,
                             [name |-> None, categories |-> {}, sequences |-> << >>,
                              cancelled |-> FALSE])
           /\ tasks' = DictPut(tasks, routine_id,
                          [pc |-> "created", seq |-> 0, phase |-> << >>,
                           nfinished |-> 0, outer |-> None,
                           exit |-> None, exc |-> NoExc, calls |-> << >>,
                           keys_added |-> {}, buttons_added |-> {},
                           completed |-> << >>])
           /\ op' = OpRecord("create_routine", routine_id, None, {}, None)
    /\ UNCHANGED << current_pos, id_to_routine, name_to_routines, routine_registry,
                    pressed_keys, pressed_mouse_buttons, ready >>

\* op inside and after a building call: the method, the routine, the
\* group's list of actions, the actions in the order the caller gave them,
\* the flag, and the routine's sequences before the call
BuildRecord(n, r, method, actions, given, parallel) ==
    [name |-> n, id |-> r, key |-> method, set |-> {}, ret |-> None,
     actions |-> actions, given |-> given, parallel |-> parallel,
     before |-> routines[r].sequences]

\* `with routine.parallel_actions() as actions:` (parallel) or
\* `with routine.sequential_actions() as actions:` up to the yield
OpenScope(r, parallel) ==
    /\ cur = NoUnit
    /\ r \in DOMAIN routines
    /\ tasks[r].pc = "created"
    /\ Len(routines[r].sequences) < MaxSequences
    /\ cur' = ScopeUnit
    /\ op' = BuildRecord("scope", r,
                         IF parallel THEN "parallel_actions" ELSE "sequential_actions",
                         << >>, << >>, parallel)
    /\ UNCHANGED << current_pos, next_routine_id, routines, id_to_routine, name_to_routines,
                    routine_registry, pressed_keys, pressed_mouse_buttons, tasks, ready >>

\* a method of the ActionGroup called inside the block
GroupCall(a) ==
    /\ cur = ScopeUnit
    /\ Validates(a)
    /\ Len(op.actions) < MaxGroupLen
    /\ op' = [op EXCEPT !.actions = GroupAppend(@, a), !.given = Append(@, a)]
    /\ UNCHANGED << current_pos, next_routine_id, routines, id_to_routine, name_to_routines,
                    routine_registry, pressed_keys, pressed_mouse_buttons, tasks, ready,
                    cur >>

\* the block ends: the context manager goes on after its yield
CloseScope ==
    /\ cur = ScopeUnit
    /\ cur' = CallerUnit
    /\ routines' = [routines EXCEPT ![op.id].sequences =
                        AppendSequence(@, op.actions, op.key = "parallel_actions")]
    /\ op' = [op EXCEPT !.name = "close_scope"]
    /\ UNCHANGED << current_pos, next_routine_id, id_to_routine, name_to_routines,
                    routine_registry, pressed_keys, pressed_mouse_buttons, tasks, ready >>

\* routine.add_actions(actions, parallel)
add_actions(r, actions, parallel) ==
    /\ cur = NoUnit
    /\ \A i \in DOMAIN actions : Validates(actions[i])
    /\ r \in DOMAIN routines
    /\ tasks[r].pc = "created"
    /\ Len(routines[r].sequences) < MaxSequences
    /\ cur' = CallerUnit
    /\ routines' = [routines EXCEPT ![r].sequences = AppendSequence(@, actions, parallel)]
    /\ op' = BuildRecord("add_actions", r, "add_actions", actions, actions, parallel)
    /\ UNCHANGED << current_pos, next_routine_id, id_to_routine, name_to_routines,
                    routine_registry, pressed_keys, pressed_mouse_buttons, tasks, ready >>

\* a routine is built and then run on a device that accepts every command
BuilderNext ==
    \/ Return
    \/ CreateEmpty
    \/ \E r \in Ids, parallel \in BOOLEAN : OpenScope(r, parallel)
    \/ \E a \in GroupCalls : GroupCall(a)
    \/ CloseScope
    \/ \E r \in Ids, actions \in ActionLibrary, parallel \in BOOLEAN :
          add_actions(r, actions, parallel)
    \/ \E r \in Ids : RunStart(r)
    \/ \E r \in Ids : LoopStep(r)
    \/ \E r \in Ids : Finally(r)
    \/ \E r \in Ids, i \in 1 .. MaxGroupLen : ExecStart(r, i, "ok")
    \/ \E r \in Ids, i \in 1 .. MaxGroupLen : ExecResume(r, i, "ok")
    \/ \E r \in Ids, i \in 1 .. MaxGroupLen : ExecEnd(r, i)
    \/ \E r \in Ids, i \in 1 .. MaxGroupLen : TimerFire(r, i)
    \/ \E r \in Ids, i \in 1 .. MaxGroupLen : Dispatch(r, i)
    \/ \E r \in Ids, i \in 1 .. MaxGroupLen : GatherCallback(r, i)
    \/ \E r \in Ids : GatherResume(r)

BuilderSpec == Init /\ [][BuilderNext]_vars

\* s is t with one more element at its end
IsPrefixPlusOne(t, s) ==
    /\ Len(s) = Len(t) + 1
    /\ \A k \in DOMAIN t : s[k] = t[k]

\* C23: closing a parallel_actions() or sequential_actions() scope appends
\* exactly one ActionSequence to the routine, holding the actions in the
\* order the builder methods were called and with parallel = true for
\* parallel_actions and false for sequential_actions; add_actions(list,
\* parallel) appends exactly one sequence with the list's order and the given
\* flag; sequences appended earlier are not changed, by these calls or by
\* any later step.
C23_ScopeAppendsOneSequence ==
    /\ [](op.name \in {"close_scope", "add_actions"} =>
            LET sequences == routines[op.id].sequences
                last == sequences[Len(sequences)]
            IN  /\ IsPrefixPlusOne(op.before, sequences)
                /\ last.actions = op.given
                /\ op.key = "parallel_actions" => last.parallel = TRUE
                /\ op.key = "sequential_actions" => last.parallel = FALSE
                /\ op.key = "add_actions" => last.parallel = op.parallel)
    /\ [][\A r \in DOMAIN routines :
              \A k \in DOMAIN routines[r].sequences :
                  /\ k \in DOMAIN routines'[r].sequences
                  /\ routines'[r].sequences[k] = routines[r].sequences[k]]_vars

\* a parallel_actions scope in which two different actions were added has
\* closed on a routine that had a sequence already
C23_Witness ==
    /\ op.name = "close_scope"
    /\ op.key = "parallel_actions"
    /\ Len(op.before) = 1
    /\ Len(op.given) = 2
    /\ op.given[1] # op.given[2]

\* the kinds of action _execute_action knows
ActionKinds ==
    {"press", "release", "tap", "wait", "turn", "mouse_move", "mouse_press",
     "mouse_release", "mouse_click"}

\* an action the spec's validation rules out: an unrecognized kind, an empty
\* key identifier, a negative duration
InvalidAction(a) ==
    \/ a.type \notin ActionKinds
    \/ a.type \in {"press", "release", "tap"} /\ a.key = ""
    \/ a.duration # NoDuration /\ a.duration < 0

\* C24: action validation rejects every action that has an unrecognized
\* kind, an empty key identifier or a negative duration: no such action is
\* constructed, added to a sequence and executed (in a sequential sequence
\* run() never gets past it, in a parallel one not every member completes).
C24_InvalidActionsRejected ==
    \A r \in DOMAIN tasks :
        \A k \in DOMAIN tasks[r].completed :
            \A i \in DOMAIN routines[r].sequences[k].actions :
                InvalidAction(routines[r].sequences[k].actions[i]) =>
                    IF routines[r].sequences[k].parallel
                    THEN tasks[r].completed[k] < Len(routines[r].sequences[k].actions)
                    ELSE tasks[r].completed[k] < i

\* the device calls an action makes in all: two for a tap and a click, one
\* per step for a turn, one for the other kinds that call the device
CallsInAll(a) ==
    CASE a.type \in {"tap", "mouse_click"} -> 2
      [] a.type = "turn" -> (a.duration * StepsPerSecond) \div 10
      [] a.type = "wait" -> 0
      [] OTHER -> 1

\* C26: in a sequential sequence, an action other than wait that carries a
\* duration (tap, turn, mouse_move, mouse_click) returns, and the next action
\* starts, only in the step in which it resumes from one more sleep of its
\* duration, a sleep it entered after all its device calls; a wait returns
\* when it resumes from its one sleep and never sleeps a second time; press,
\* release, mouse_press and mouse_release return in the step in which they
\* started.
C26_TrailingHold ==
    [][\A r \in DOMAIN tasks :
          (tasks[r].pc = "seq" /\ tasks'[r].pc = "seq") =>
              \A i \in DOMAIN tasks[r].phase :
                  LET a == CurSeq(r).actions[i]
                      was == tasks[r].phase[i]
                      now == tasks'[r].phase[i]
                  IN  /\ (was # "done" /\ now = "done") =>
                            /\ tasks'[r].phase[i + 1] = "exec0"
                            /\ (a.type \in {"tap", "turn", "mouse_move", "mouse_click"}
                                  /\ a.duration > 0) => was = "exec2"
                            /\ a.type = "wait" => was = "exec1"
                            /\ a.type \in {"press", "release", "mouse_press",
                                           "mouse_release"} => was = "exec0"
                      /\ (was # "exec2" /\ now = "exec2") => was = "ready2"
                      /\ (was # "ready2" /\ now = "ready2") => was = "sleep2"
                      /\ (was # "sleep2" /\ now = "sleep2") =>
                            /\ a.type \in {"tap", "turn", "mouse_move", "mouse_click"}
                            /\ was \in {"exec0", "exec1"}
                            /\ NumCalls(r, i)' = CallsInAll(a)
                            /\ i < Len(tasks[r].phase) => tasks'[r].phase[i + 1] = "pending"
                      /\ (a.type = "wait" /\ was # "sleep1" /\ now = "sleep1") =>
                            was = "exec0"
                      /\ (a.type = "wait" /\ was = "exec1") => now = "done"]_vars

\* a turn in a sequential sequence has made all its moves and is in its
\* trailing sleep while the action after it has not started
C26_Witness ==
    \E r \in DOMAIN tasks :
        /\ tasks[r].pc = "seq"
        /\ CurSeq(r).actions[1].type = "turn"
        /\ tasks[r].phase[1] = "sleep2"
        /\ NumCalls(r, 1) = 2
        /\ tasks[r].phase[2] = "pending"

\* the key or button of a tap or click is in the held set it belongs to
InputHeld(a) ==
    IF a.type = "tap" THEN a.key \in pressed_keys ELSE a.button \in pressed_mouse_buttons

\* C27: tap(K, d) issues key-down(K), then suspends d, then issues key-up(K),
\* and K is in held-key state exactly from the key-down until the key-up;
\* mouse_click does the same for a button and the held-button set (on a
\* device that accepts the calls and with no other action on the same input).
C27_TapHoldsBetweenCalls ==
    /\ [](\A r \in DOMAIN tasks :
            \A i \in DOMAIN tasks[r].phase :
                LET a == CurSeq(r).actions[i]
                    ph == tasks[r].phase[i]
                IN  a.type \in {"tap", "mouse_click"} =>
                        /\ ph \in {"pending", "ready0", "exec0"} =>
                              NumCalls(r, i) = 0 /\ ~InputHeld(a)
                        /\ ph \in {"sleep1", "ready1", "exec1"} =>
                              NumCalls(r, i) = 1 /\ InputHeld(a)
                        /\ ph \in {"sleep2", "ready2", "exec2", "done"} =>
                              NumCalls(r, i) = 2 /\ ~InputHeld(a))
    /\ [][\A r \in DOMAIN tasks :
              (tasks[r].phase # << >> /\ tasks'[r].phase # << >>
                  /\ tasks'[r].seq = tasks[r].seq) =>
                  \A i \in DOMAIN tasks[r].phase :
                      LET a == CurSeq(r).actions[i]
                          was == tasks[r].phase[i]
                          now == tasks'[r].phase[i]
                      IN  a.type \in {"tap", "mouse_click"} =>
                              \* the second call is made on resuming from the sleep
                              /\ (was # "exec1" /\ now = "exec1") => was = "ready1"
                              /\ (was # "ready1" /\ now = "ready1") =>
                                    \/ was = "sleep1"
                                    \/ was = "exec0" /\ a.duration <= 0
                              /\ (was # "sleep1" /\ now = "sleep1") =>
                                    was = "exec0" /\ a.duration > 0
                              /\ (was = "exec1" /\ now # "exec1") =>
                                    /\ ~InputHeld(a)'
                                    /\ tasks'[r].calls = Append(tasks[r].calls, i)]_vars

\* a mouse_click is asleep between its mouse-down and its mouse-up with the
\* button held
C27_Witness ==
    \E r \in DOMAIN tasks :
        /\ tasks[r].phase # << >>
        /\ CurSeq(r).actions[1].type = "mouse_click"
        /\ tasks[r].phase[1] = "sleep1"
        /\ InputHeld(CurSeq(r).actions[1])
        /\ tasks[r].calls = << 1 >>

\* the members of the parallel sequence r is in, or ended in, that raised
RaisedMembers(r) ==
    IF tasks[r].phase # << >> /\ IsParallel(routines[r].sequences[tasks[r].seq])
    THEN {i \in DOMAIN tasks[r].phase : tasks[r].phase[i] \in ActionErrors}
    ELSE {}

\* the members of that sequence that have neither returned nor raised
UnfinishedMembers(r) ==
    {i \in DOMAIN tasks[r].phase : tasks[r].phase[i] \notin ActionErrors \cup {"done"}}

\* C28: when a member of a parallel sequence fails, execute_sequence
\* propagates that failure to the routine as soon as it occurs, without first
\* waiting for the remaining members to finish: while run() is still inside
\* the wait and a member has raised, either the done-callback of a raised
\* member is queued and the wait has no outcome yet, or the wait has that
\* member's exception and run() is queued to resume with it, whatever the
\* other members are doing.
C28_FailurePropagatesAtOnce ==
    \A r \in DOMAIN tasks :
        (tasks[r].pc = "gather" /\ RaisedMembers(r) # {}) =>
            \/ /\ tasks[r].outer = "pending"
               /\ \E i \in RaisedMembers(r) : InReady(CallbackEntry(r, i))
            \/ /\ tasks[r].outer \in {tasks[r].phase[i] : i \in RaisedMembers(r)}
               /\ InReady(TaskEntry(r, 0))

\* run() has left the wait with the exception of the member that raised
\* while another member of the sequence is still asleep
C28_Witness ==
    \E r \in DOMAIN tasks :
        /\ tasks[r].pc = "finally"
        /\ tasks[r].exit = "failed"
        /\ RaisedMembers(r) # {}
        /\ tasks[r].exc \in {tasks[r].phase[i] : i \in RaisedMembers(r)}
        /\ \E j \in UnfinishedMembers(r) : tasks[r].phase[j] = "sleep1"

\* ------------------------------------------------------------------------
\* Parallel sequences on a device that can fail
\* ------------------------------------------------------------------------

\* the parallel groups the caller gives add_actions
ParallelLibrary ==
    { << KeyPress("forward"), KeyTap("action", 1) >>,
      << KeyTap("action", 1), MousePress("left") >>,
      << MousePress("left"), MouseClick("right", 1) >>,
      << KeyTap("action", 0), Turn(90, 1) >> }

\* one routine of parallel sequences is built and run; every xdotool call
\* can succeed, find no xdotool, or be rejected
ParallelNext ==
    \/ Return
    \/ CreateEmpty
    \/ \E r \in Ids, actions \in ParallelLibrary : add_actions(r, actions, TRUE)
    \/ \E r \in Ids : RunStart(r)
    \/ \E r \in Ids : LoopStep(r)
    \/ \E r \in Ids : Finally(r)
    \/ \E r \in Ids, i \in 1 .. MaxGroupLen, o \in Outcomes : ExecStart(r, i, o)
    \/ \E r \in Ids, i \in 1 .. MaxGroupLen, o \in Outcomes : ExecResume(r, i, o)
    \/ \E r \in Ids, i \in 1 .. MaxGroupLen : ExecEnd(r, i)
    \/ \E r \in Ids, i \in 1 .. MaxGroupLen : TimerFire(r, i)
    \/ \E r \in Ids, i \in 1 .. MaxGroupLen : Dispatch(r, i)
    \/ \E r \in Ids, i \in 1 .. MaxGroupLen : GatherCallback(r, i)
    \/ \E r \in Ids : GatherResume(r)

ParallelSpec == Init /\ [][ParallelNext]_vars

\* the xdotool call that member j of r makes next
NextCallOf(r, j) ==
    LET a == CurSeq(r).actions[j]
    IN  IF NumCalls(r, j) = 0 THEN FirstCall(a) ELSE ResumeCall(a, NumCalls(r, j))

\* C29: after a member of a parallel sequence has failed, the remaining
\* members are not cancelled: each of them stays asleep on its timer, queued
\* or running until it returns or raises, also after run() has exited and the
\* routine is unregistered; run()'s exit does not touch them; and the device
\* calls they make after the failure have their usual effect: a key-down or
\* mouse-down that is not rejected adds its input to the held set, a key-up or
\* mouse-up that is not rejected removes it.
C29_OrphansKeepRunning ==
    /\ [](\A r \in DOMAIN tasks :
            RaisedMembers(r) # {} =>
                \A j \in UnfinishedMembers(r) :
                    \/ tasks[r].phase[j] \in {"sleep1", "sleep2"}
                    \/ InReady(TaskEntry(r, UnitIdx(r, j)))
                    \/ cur = Unit(r, j))
    /\ [][\A r \in DOMAIN tasks :
              RaisedMembers(r) # {} =>
                  /\ tasks'[r].pc # tasks[r].pc => tasks'[r].phase = tasks[r].phase
                  /\ \A j \in UnfinishedMembers(r) :
                        LET a == CurSeq(r).actions[j]
                            call == NextCallOf(r, j)
                        IN  (NumCalls(r, j)' = NumCalls(r, j) + 1
                                /\ tasks'[r].phase[j] \notin ActionErrors) =>
                                /\ call = "keydown" => a.key \in pressed_keys'
                                /\ call = "mousedown" => a.button \in pressed_mouse_buttons'
                                /\ call = "keyup" => a.key \notin pressed_keys'
                                /\ call = "mouseup" =>
                                      a.button \notin pressed_mouse_buttons']_vars

\* the press that starts a parallel sequence was rejected, run() has exited
\* with its error and the routine is unregistered; the tap launched with it
\* made its key-down after that failure, holds the key, and is now running
\* again to make its key-up
C29_Witness ==
    \E r \in DOMAIN tasks :
        /\ tasks[r].pc = "done"
        /\ tasks[r].exit = "failed"
        /\ r \notin DOMAIN id_to_routine
        /\ RaisedMembers(r) = {1}
        /\ CurSeq(r).actions[2].type = "tap"
        /\ tasks[r].phase[2] = "exec1"
        /\ tasks[r].calls = << 1, 2 >>
        /\ CurSeq(r).actions[2].key \in pressed_keys
        /\ cur = Unit(r, 2)

\* the actions of r that are suspended in a sleep: inside a tap, wait, click
\* or turn, or in the trailing hold
Asleep(r) == {i \in DOMAIN tasks[r].phase : tasks[r].phase[i] \in {"sleep1", "sleep2"}}

\* the event loop takes the entry at the head of the ready queue
HeadRuns ==
    \E r \in Ids :
        \/ \E i \in 1 .. MaxActions : Dispatch(r, i) \/ GatherCallback(r, i)
        \/ GatherResume(r)

\* the running task of routine r takes its next step
TaskRuns(r) ==
    \/ LoopStep(r)
    \/ Finally(r)
    \/ \E i \in 1 .. MaxActions :
          \/ \E o \in Outcomes : ExecStart(r, i, o) \/ ExecResume(r, i, o)
          \/ ExecEnd(r, i)

\* C30: distinct routines run concurrently.  While an action of a running
\* routine is suspended in a wait or hold, its task neither is the running task
\* nor has a place in the ready queue, so: when no task is running, every
\* registry operation can be invoked, a created routine can be started and the
\* task at the head of the ready queue can go on; and when a task of another
\* routine is running, it can take its next step.
C30_RoutinesRunConcurrently ==
    \A r \in DOMAIN tasks :
        Asleep(r) # {} =>
            /\ \A i \in Asleep(r) :
                  /\ cur # Unit(r, i)
                  /\ ~InReady(TaskEntry(r, UnitIdx(r, i)))
            /\ cur = NoUnit =>
                  /\ \A r2 \in Ids : ENABLED cancel_by_id(r2)
                  /\ \A n \in Names : ENABLED cancel_by_name(n)
                  /\ \A c \in Categories : ENABLED cancel_category(c)
                  /\ \A cs \in SUBSET Categories : ENABLED cancel_all_except(cs)
                  /\ \A r2 \in DOMAIN tasks :
                        tasks[r2].pc = "created" => ENABLED RunStart(r2)
                  /\ ready # << >> => ENABLED HeadRuns
            /\ \A r2 \in DOMAIN tasks :
                  (r2 # r /\ cur \in {<< r2, k >> : k \in 0 .. MaxActions}) =>
                      ENABLED TaskRuns(r2)

\* the scan routine is asleep in its wait with the scan key held while an
\* action of another registered routine is executing
C30_Witness ==
    \E r, r2 \in DOMAIN tasks :
        /\ r # r2
        /\ Registered(r)
        /\ Registered(r2)
        /\ tasks[r].pc = "seq"
        /\ \E i \in Asleep(r) : CurSeq(r).actions[i].type = "wait"
        /\ tasks[r2].phase # << >>
        /\ \E j \in DOMAIN tasks[r2].phase :
              tasks[r2].phase[j] = "exec0" /\ cur = Unit(r2, j)

\* ------------------------------------------------------------------------
\* The event loop's scheduling
\* ------------------------------------------------------------------------
\* asyncio runs its ready queue first in, first out and fires every timer
\* whose delay has passed; a synchronous call of the caller returns; a task
\* that has the loop runs until its next await.  The caller is not obliged to
\* call anything.
LoopFairness ==
    /\ WF_vars(Return)
    /\ \A r \in Ids : WF_vars(TaskRuns(r))
    /\ SF_vars(HeadRuns)
    /\ \A r \in Ids : \A i \in 1 .. MaxActions : SF_vars(TimerFire(r, i))

\* routines are run one at a time on a device whose calls can succeed, find
\* no xdotool or be rejected, while the caller calls emergency_stop at will
LiveNext ==
    \/ Return
    \/ \E t \in DOMAIN Catalogue : CreateRoutine(t)
    \/ \E keyOut \in [pressed_keys -> Outcomes],
          buttonOut \in [pressed_mouse_buttons -> Outcomes] :
            emergency_stop(keyOut, buttonOut)
    \/ \E r \in Ids : ScenarioRunStart(r)
    \/ \E r \in Ids : LoopStep(r)
    \/ \E r \in Ids : Finally(r)
    \/ \E r \in Ids, i \in 1 .. MaxActions, o \in Outcomes : ExecStart(r, i, o)
    \/ \E r \in Ids, i \in 1 .. MaxActions, o \in Outcomes : ExecResume(r, i, o)
    \/ \E r \in Ids, i \in 1 .. MaxActions : ExecEnd(r, i)
    \/ \E r \in Ids, i \in 1 .. MaxActions : TimerFire(r, i)
    \/ \E r \in Ids, i \in 1 .. MaxActions : Dispatch(r, i)
    \/ \E r \in Ids, i \in 1 .. MaxActions : GatherCallback(r, i)
    \/ \E r \in Ids : GatherResume(r)

LiveSpec == Init /\ [][LiveNext]_vars /\ LoopFairness

\* r is in some index of the registry
InSomeIndex(r) ==
    \/ r \in DOMAIN id_to_routine
    \/ \E n \in DOMAIN name_to_routines : r \in name_to_routines[n]
    \/ \E c \in DOMAIN routine_registry : r \in routine_registry[c]

\* run() of r has started and has not exited
Running(r) == r \in DOMAIN tasks /\ tasks[r].pc \notin {"created", "done"}

\* C31: provided every device call returns and every sleep ends (the event
\* loop's fairness), each run() that has started eventually exits and its
\* routine is eventually in no index of the registry; emergency_stop() does
\* not wait for that: a routine still registered when emergency_stop() returns
\* is eventually absent from every index.
C31_RunsEventuallyExit ==
    \A r \in Ids :
        /\ Running(r) ~> (r \in DOMAIN tasks /\ tasks[r].pc = "done" /\ ~InSomeIndex(r))
        /\ (op.name = "emergency_stop" /\ InSomeIndex(r)) ~> ~InSomeIndex(r)

\* emergency_stop() has done its work and is about to return while a routine
\* it cancelled, asleep in its wait, is still registered
C31_Witness ==
    \E r \in DOMAIN tasks :
        /\ op.name = "emergency_stop"
        /\ cur = CallerUnit
        /\ routines[r].cancelled
        /\ Registered(r)
        /\ tasks[r].pc = "seq"
        /\ Asleep(r) # {}
        /\ pressed_keys = {}

\* C32: emergency_stop() contains no suspension point: the step that starts
\* it is the step that ends it, with control back at its caller; in it every
\* registered routine is flagged and both held sets are emptied, the ready
\* queue is as it was and no routine's task has moved or made a device call,
\* so no press of a running routine falls between its cancellation phase and
\* its release phase.
C32_EmergencyStopAtomic ==
    [][op'.name = "emergency_stop" =>
          /\ cur = NoUnit
          /\ cur' = CallerUnit
          /\ ready' = ready
          /\ \A r \in DOMAIN tasks :
                /\ tasks'[r].pc = tasks[r].pc
                /\ tasks'[r].phase = tasks[r].phase
                /\ tasks'[r].calls = tasks[r].calls
          /\ \A i \in DOMAIN id_to_routine : routines'[id_to_routine[i]].cancelled
          /\ pressed_keys' = {}
          /\ pressed_mouse_buttons' = {}]_vars

\* emergency_stop() has run while the task of a routine whose next action is
\* a press was in the ready queue: the task has not run and nothing is held
C32_Witness ==
    \E r \in DOMAIN tasks :
        /\ op.name = "emergency_stop"
        /\ tasks[r].pc = "seq"
        /\ tasks[r].phase[1] = "ready2"
        /\ Len(tasks[r].phase) > 1
        /\ CurSeq(r).actions[2].type = "press"
        /\ InReady(TaskEntry(r, 0))
        /\ op.set # {}
        /\ pressed_keys = {}
        /\ pressed_mouse_buttons = {}

\* the operations that set cancellation flags
CancelOps ==
    {"cancel", "cancel_by_id", "cancel_by_name", "cancel_category", "cancel_all_except",
     "emergency_stop"}

InsideTapOf(r, i, k) ==
    /\ tasks[r].phase # << >>
    /\ i \in DOMAIN tasks[r].phase
    /\ CurSeq(r).actions[i].type = "tap"
    /\ CurSeq(r).actions[i].key = k
    /\ NumCalls(r, i) = 1
    /\ tasks[r].phase[i] \in {"sleep1", "ready1", "exec1"}

\* C34: held-input state is one plain set shared by all routines, with no
\* reference count or owner: a key-up that the device does not reject is
\* issued and takes its key out of held-key state whichever other routines
\* have pressed the key and not released it.
C34_SharedHeldSet ==
    [][\A r \in DOMAIN tasks :
          \A i \in DOMAIN tasks[r].phase :
              LET a == CurSeq(r).actions[i]
                  raised == \/ tasks'[r].exc # tasks[r].exc
                            \/ /\ tasks'[r].phase # << >>
                               /\ tasks'[r].phase[i] \in ActionErrors
              IN  (NextCallOf(r, i) = "keyup" /\ cur = Unit(r, i)
                      /\ tasks[r].phase[i] \in {"exec0", "exec1"}) =>
                      /\ tasks'[r].calls = Append(tasks[r].calls, i)
                      /\ ~raised => a.key \notin pressed_keys'
      ]_vars

\* two routines are inside a tap of the same key; the first has made its
\* key-up and the key is out of held-key state while the second is still
\* asleep between its key-down and its key-up
C34_Witness ==
    \E r, r2 \in DOMAIN tasks :
        /\ r # r2
        /\ ~routines[r].cancelled
        /\ ~routines[r2].cancelled
        /\ tasks[r].pc = "seq"
        /\ tasks[r2].pc = "seq"
        /\ CurSeq(r).actions[1] = KeyTap("forward", 1)
        /\ tasks[r].phase[1] = "sleep2"
        /\ tasks[r].calls = << 1, 1 >>
        /\ InsideTapOf(r2, 1, "forward")
        /\ tasks[r2].phase[1] = "sleep1"
        /\ "forward" \notin pressed_keys

\* the flag of r was set before its run() started: no sequence was entered
FlaggedBeforeStart(r) ==
    /\ routines[r].cancelled
    /\ tasks[r].completed = << >>
    /\ tasks[r].pc # "created"

\* C35: a routine's cancellation flag is monotone: no step clears it; and a
\* routine whose flag is set before run() starts is still registered by
\* run(), enters none of its sequences and makes no device call, and is
\* unregistered when run() exits as cancelled.
C35_FlagMonotone ==
    /\ [](\A r \in DOMAIN tasks :
            /\ (routines[r].cancelled /\ tasks[r].pc = "created") =>
                  tasks[r].completed = << >> /\ tasks[r].calls = << >>
            /\ FlaggedBeforeStart(r) =>
                  /\ tasks[r].calls = << >>
                  /\ tasks[r].phase = << >>
                  /\ tasks[r].pc \in {"loop", "finally"} => r \in DOMAIN id_to_routine
                  /\ tasks[r].pc \in {"finally", "done"} => tasks[r].exit = "cancelled"
                  /\ tasks[r].pc = "done" => ~InSomeIndex(r))
    /\ [][\A r \in DOMAIN tasks :
              routines[r].cancelled =>
                  /\ routines'[r].cancelled
                  /\ Len(tasks'[r].completed) = Len(tasks[r].completed)]_vars

\* a routine flagged before its run() started is in run()'s finally clause,
\* still registered, having entered no sequence
C35_Witness ==
    \E r \in DOMAIN tasks :
        /\ FlaggedBeforeStart(r)
        /\ tasks[r].pc = "finally"
        /\ tasks[r].exit = "cancelled"
        /\ r \in DOMAIN id_to_routine
        /\ routines[r].sequences # << >>
        /\ tasks[r].calls = << >>

\* the controller's operations that cancel through the registry
RegistryCancelOps == CancelOps \ {"cancel"}

\* every action of every sequence of r has returned normally
RanAllSequences(r) ==
    /\ Len(tasks[r].completed) = Len(routines[r].sequences)
    /\ \A k \in DOMAIN routines[r].sequences :
          tasks[r].completed[k] = Len(routines[r].sequences[k].actions)

\* C36: cancel_by_id, cancel_by_name, cancel_category, cancel_all_except and
\* emergency_stop never change the cancellation flag of a routine that has
\* been created but whose run() has not started, or whose run() has already
\* exited; so a routine that is not flagged when it starts, whatever
\* emergency_stop() calls came before, ends only by executing all its sequences
\* or by a failure of one of its actions, unless it is cancelled while it runs.
C36_UnregisteredUntouched ==
    /\ [](\A r \in DOMAIN tasks :
            (~routines[r].cancelled /\ tasks[r].pc \in {"finally", "done"}) =>
                /\ tasks[r].exit \in {"completed", "failed"}
                /\ tasks[r].exit = "completed" => RanAllSequences(r))
    /\ [][op'.name \in RegistryCancelOps =>
              \A r \in DOMAIN tasks :
                  tasks[r].pc \in {"created", "done"} =>
                      routines'[r].cancelled = routines[r].cancelled]_vars

\* emergency_stop() has flagged the registered routine and left alone the
\* unflagged routine that was created and not yet run
C36_Witness ==
    \E r, r2 \in DOMAIN tasks :
        /\ op.name = "emergency_stop"
        /\ tasks[r].pc = "created"
        /\ ~routines[r].cancelled
        /\ Registered(r2)
        /\ routines[r2].cancelled

\* C37: in every reachable state no name key and no category key of the
\* registry maps to an empty set, and once every registered routine has been
\* unregistered the id, name and category indices are all empty.
C37_NoEmptyKeys ==
    /\ \A n \in DOMAIN name_to_routines : name_to_routines[n] # {}
    /\ \A c \in DOMAIN routine_registry : routine_registry[c] # {}
    /\ (\A r \in DOMAIN tasks : ~Registered(r)) =>
          /\ DOMAIN id_to_routine = {}
          /\ DOMAIN name_to_routines = {}
          /\ DOMAIN routine_registry = {}

\* two named routines with categories, one of them in two categories, have
\* both run and exited, and the three indices are empty
C37_Witness ==
    /\ DOMAIN tasks = Ids
    /\ \A r \in DOMAIN tasks :
          tasks[r].pc = "done" /\ routines[r].name # None /\ routines[r].categories # {}
    /\ \E r, r2 \in DOMAIN tasks :
          r # r2 /\ routines[r].categories \cap routines[r2].categories # {}
                 /\ routines[r].categories # routines[r2].categories
    /\ DOMAIN id_to_routine = {}
    /\ DOMAIN name_to_routines = {}
    /\ DOMAIN routine_registry = {}

\* ------------------------------------------------------------------------
\* execute_routine: replay of a persisted flat routine record
\* ------------------------------------------------------------------------
\* models.py Action (legacy): type, duration (tenths of a second), params
LegacyAction(type, duration, params) ==
    [type |-> type, duration |-> duration, params |-> params]

\* models.py Routine (legacy): name and a flat list of actions
LegacyRoutine(name, actions) == [name |-> name, actions |-> actions]

NoParams == [x \in {} |-> None]

\* routines.py: create_360_scan_legacy, create_patrol_route_legacy (its first
\* two actions), create_cargo_delivery_legacy, and a record of the three
\* kinds that _convert_legacy_action knows
LegacyRecords ==
    { LegacyRoutine("360_degree_scan",
          << LegacyAction("scan", 40, [degrees |-> 360]) >>),
      LegacyRoutine("patrol_square",
          << LegacyAction("move_and_turn", 30, [degrees |-> 90]),
             LegacyAction("scan", 20, [degrees |-> 180]) >>),
      LegacyRoutine("deliver_cargo",
          << LegacyAction("move", 20, [direction |-> "forward"]),
             LegacyAction("hold_key", 10, [key |-> "action"]),
             LegacyAction("wait", 20, NoParams),
             LegacyAction("move", 10, [direction |-> "backward"]) >>),
      LegacyRoutine("look_around",
          << LegacyAction("move", 10, NoParams),
             LegacyAction("turn", 1, [degrees |-> 45]),
             LegacyAction("turn", 1, NoParams),
             LegacyAction("wait", 10, NoParams) >>) }

\* params.get(k, default)
ParamGet(params, k, default) == IF k \in DOMAIN params THEN params[k] ELSE default

\* _convert_legacy_action: the actions put into the group of the
\* sequential_actions() scope it opens for one legacy action
ConvertLegacyAction(la) ==
    CASE la.type = "move" ->
           LET direction == ParamGet(la.params, "direction", "forward")
           IN  << KeyPress(direction), Wait(la.duration), KeyRelease(direction) >>
      [] la.type = "turn" -> << Turn(ParamGet(la.params, "degrees", 90), la.duration) >>
      [] la.type = "wait" -> << Wait(la.duration) >>
      [] OTHER -> << >>

\* the sequences execute_routine gives the new routine: one sequential
\* sequence per legacy action, in record order
ConvertedSequences(record) ==
    [k \in DOMAIN record.actions |->
        ActionSequence(ConvertLegacyAction(record.actions[k]), FALSE)]

\* execute_routine(record) up to run()'s try statement: create_routine with
\* the record's name and no categories, the conversion of every action, and
\* run()'s registration; nothing in it suspends.  Records are replayed one
\* at a time with nothing held.
execute_routine(record) ==
    /\ cur = NoUnit
    /\ next_routine_id < MaxRoutines
    /\ \A r2 \in DOMAIN tasks : ~Registered(r2)
    /\ pressed_keys = {}
    /\ LET routine_id == next_routine_id
           routine == [name |-> record.name, categories |-> {},
                       sequences |-> ConvertedSequences(record), cancelled |-> FALSE]
       IN  /\ next_routine_id' = next_routine_id + 1
           /\ routines' = DictPut(routines, routine_id, routine)
           /\ tasks' = DictPut(tasks, routine_id,
                          [pc |-> "loop", seq |-> 1, phase |-> << >>,
                           nfinished |-> 0, outer |-> None,
                           exit |-> None, exc |-> NoExc, calls |-> << >>,
                           keys_added |-> {}, buttons_added |-> {},
                           completed |-> << >>])
           /\ id_to_routine' = DictPut(id_to_routine, routine_id, routine_id)
           /\ name_to_routines' = IndexAdd(name_to_routines, record.name, routine_id)
           /\ cur' = << routine_id, 0 >>
           /\ op' = [name |-> "execute_routine", id |-> routine_id, key |-> None,
                     set |-> {}, ret |-> None, record |-> record]
    /\ UNCHANGED << current_pos, routine_registry, pressed_keys, pressed_mouse_buttons,
                    ready >>

\* records are replayed on a device that accepts every command
ReplayNext ==
    \/ \E record \in LegacyRecords : execute_routine(record)
    \/ \E r \in Ids : LoopStep(r)
    \/ \E r \in Ids : Finally(r)
    \/ \E r \in Ids, i \in 1 .. MaxActions : ExecStart(r, i, "ok")
    \/ \E r \in Ids, i \in 1 .. MaxActions : ExecResume(r, i, "ok")
    \/ \E r \in Ids, i \in 1 .. MaxActions : ExecEnd(r, i)
    \/ \E r \in Ids, i \in 1 .. MaxActions : TimerFire(r, i)
    \/ \E r \in Ids, i \in 1 .. MaxActions : Dispatch(r, i)

ReplaySpec == Init /\ [][ReplayNext]_vars

\* the legacy action types (models.py ActionType)
LegacyTypes ==
    {"move", "turn", "move_and_turn", "sprint", "sprint_and_turn", "hold_key",
     "hold_mouse", "wait", "scan"}

\* C38: execute_routine(record) creates a routine named after the record
\* with one sequential sequence per record action in record order and runs
\* it, and every action of the record is replayed as input actions: move as
\* press(direction), wait(duration), release(direction), turn as a turn, wait
\* as a wait, and every other legacy type as some input actions too, none
\* being silently dropped.
C38_ReplaysEveryAction ==
    op.name = "execute_routine" =>
        LET r == op.id
            q == routines[r].sequences
            las == op.record.actions
        IN  /\ routines[r].name = op.record.name
            /\ Registered(r)
            /\ Len(q) = Len(las)
            /\ \A k \in DOMAIN las :
                  LET la == las[k]
                      direction == ParamGet(la.params, "direction", "forward")
                  IN  /\ la.type \in LegacyTypes
                      /\ ~q[k].parallel
                      /\ q[k].actions # << >>
                      /\ la.type = "move" =>
                            q[k].actions = << KeyPress(direction), Wait(la.duration),
                                              KeyRelease(direction) >>
                      /\ la.type = "turn" =>
                            /\ Len(q[k].actions) = 1
                            /\ q[k].actions[1].type = "turn"
                            /\ q[k].actions[1].duration = la.duration
                      /\ la.type = "wait" => q[k].actions = << Wait(la.duration) >>

\* ------------------------------------------------------------------------
\* InputRecorder (recorder.py)
\* ------------------------------------------------------------------------
MaxRecorded == 2
MaxClock == 2

\* start_time / last_action_time when None; last_mouse_pos when None
NoTime == -1
NoPos == -1

\* InputRecorder.TOGGLE_KEY, the backtick, written by its key name
TOGGLE_KEY == "grave"

\* RecorderConfig.min_pixel_movement
MinPixelMovement == 5

\* the keys the listener reports, as key_str after the special-key mapping:
\* the toggle key, three mapped keys and one that no mapping knows
TypedKeys == {TOGGLE_KEY, "w", "shift", "f", "x"}

\* reverse_key_map ({v: k} of KeyMapping), the part for the typed keys
reverse_key_map == [k \in {"w", "shift", "f"} |->
                       CASE k = "w" -> "forward" [] k = "shift" -> "sprint" [] OTHER -> "action"]

\* MovementDirection
MovementDirections == {"forward", "backward", "left", "right", "up", "down"}

\* the mapped_key of the handlers; None when they return for an unknown key
MappedKey(key_str) ==
    IF key_str \in DOMAIN reverse_key_map THEN reverse_key_map[key_str]
    ELSE IF key_str \in MovementDirections THEN key_str
    ELSE None

\* the horizontal pointer positions the listener reports
MouseXs == {0, 3, 10}

\* the recorder object; `now` is the clock read by time.time()
NewRecorder ==
    [name |-> "recorder", is_recording |-> FALSE, start_time |-> NoTime,
     last_action_time |-> NoTime, last_mouse_pos |-> NoPos, pressed_keys |-> {},
     cumulative_mouse_movement |-> 0, actions |-> << >>, saved |-> << >>, now |-> 0,
     event |-> "init"]

\* _get_time_since_last: the duration
TimeSinceLast(rc) == IF rc.last_action_time = NoTime THEN 0 ELSE rc.now - rc.last_action_time

\* self.actions.append(Action(...)) with the duration of _get_time_since_last
Recorded(rc, type, params) ==
    [rc EXCEPT !.actions = Append(@, LegacyAction(type, TimeSinceLast(rc), params)),
               !.last_action_time = rc.now]

\* a start_recording that keeps what was recorded before
StartRecordingKeeping(rc) ==
    [rc EXCEPT !.start_time = rc.now, !.last_action_time = rc.now,
               !.last_mouse_pos = NoPos, !.cumulative_mouse_movement = 0,
               !.is_recording = TRUE]

StartRecording(rc) ==
    [rc EXCEPT !.actions = << >>, !.start_time = rc.now, !.last_action_time = rc.now,
               !.last_mouse_pos = NoPos, !.pressed_keys = {},
               !.cumulative_mouse_movement = 0, !.is_recording = TRUE]

\* _on_key_release after key_str is known
OnKeyRelease(rc, key_str) ==
    IF rc.start_time = NoTime THEN rc
    ELSE IF MappedKey(key_str) = None THEN rc
    ELSE [rc EXCEPT !.pressed_keys = @ \ {MappedKey(key_str)}]

\* the loop of stop_recording: _on_key_release(KeyCode.from_char(key)) for
\* every name in a copy of pressed_keys
RECURSIVE ReleaseHeld(_, _)
ReleaseHeld(rc, todo) ==
    IF todo = {} THEN rc
    ELSE LET key == CHOOSE k \in todo : TRUE
         IN  ReleaseHeld(OnKeyRelease(rc, key), todo \ {key})

\* save_routine keeps the actions with a positive duration
RECURSIVE PositiveDurations(_)
PositiveDurations(acts) ==
    IF acts = << >> THEN << >>
    ELSE (IF Head(acts).duration > 0 THEN << Head(acts) >> ELSE << >>)
             \o PositiveDurations(Tail(acts))

StopRecording(rc) ==
    IF ~rc.is_recording THEN rc
    ELSE LET released == ReleaseHeld(rc, rc.pressed_keys)
         IN  [released EXCEPT !.is_recording = FALSE, !.start_time = NoTime,
                              !.saved = IF released.actions # << >>
                                        THEN PositiveDurations(released.actions) ELSE @]

DiscardRecording(rc) ==
    [rc EXCEPT !.actions = << >>, !.start_time = NoTime, !.last_action_time = NoTime,
               !.last_mouse_pos = NoPos, !.pressed_keys = {},
               !.cumulative_mouse_movement = 0]

\* _on_key_press after key_str is known
OnKeyPress(rc, key_str) ==
    IF key_str = TOGGLE_KEY
    THEN (IF ~rc.is_recording THEN StartRecording(rc) ELSE StopRecording(rc))
    ELSE IF ~rc.is_recording THEN rc
    ELSE LET mapped_key == MappedKey(key_str)
             held == [rc EXCEPT !.pressed_keys = @ \cup {mapped_key}]
         IN  IF mapped_key = None THEN rc
             ELSE IF mapped_key \in MovementDirections
             THEN Recorded(held, IF "sprint" \in held.pressed_keys THEN "sprint" ELSE "move",
                           [direction |-> mapped_key])
             ELSE Recorded(held, "hold_key", [key |-> mapped_key])

\* _on_mouse_move; the degrees of the recorded turn are kept as the pixels
\* they are computed from
OnMouseMove(rc, x) ==
    IF rc.start_time = NoTime THEN rc
    ELSE IF rc.last_mouse_pos = NoPos THEN [rc EXCEPT !.last_mouse_pos = x]
    ELSE LET dx == x - rc.last_mouse_pos
             cum == rc.cumulative_mouse_movement + dx
             moved == [rc EXCEPT !.last_mouse_pos = x, !.cumulative_mouse_movement = cum]
             type == IF "forward" \in rc.pressed_keys
                     THEN (IF "sprint" \in rc.pressed_keys THEN "sprint_and_turn"
                           ELSE "move_and_turn")
                     ELSE "turn"
         IN  IF Abs(cum) >= MinPixelMovement
             THEN [Recorded(moved, type, [pixels |-> cum])
                      EXCEPT !.cumulative_mouse_movement = 0]
             ELSE moved

\* _on_mouse_click: presses and releases of the left and right button
OnMouseClick(rc, button) ==
    IF rc.start_time = NoTime THEN rc
    ELSE IF button \in {"left", "right"} THEN Recorded(rc, "hold_mouse", [button |-> button])
    ELSE rc

\* a recorder just constructed, the controller idle
RecorderInit ==
    /\ next_routine_id = 0
    /\ routines = << >>
    /\ id_to_routine = << >>
    /\ name_to_routines = << >>
    /\ routine_registry = << >>
    /\ pressed_keys = {}
    /\ pressed_mouse_buttons = {}
    /\ current_pos = << 0, 0 >>
    /\ tasks = << >>
    /\ ready = << >>
    /\ cur = NoUnit
    /\ op = NewRecorder

\* the controller is not involved in recording
ControllerIdle ==
    UNCHANGED << next_routine_id, routines, id_to_routine, name_to_routines,
                 routine_registry, pressed_keys, pressed_mouse_buttons, current_pos,
                 tasks, ready, cur >>

\* time passes between two calls
Tick ==
    /\ op.now < MaxClock
    /\ op' = [op EXCEPT !.now = @ + 1, !.event = "tick"]
    /\ ControllerIdle

start_recording ==
    /\ op' = [StartRecording(op) EXCEPT !.event = "start_recording"]
    /\ ControllerIdle

stop_recording ==
    /\ op' = [StopRecording(op) EXCEPT !.event = "stop_recording"]
    /\ ControllerIdle

discard_recording ==
    /\ op' = [DiscardRecording(op) EXCEPT !.event = "discard_recording"]
    /\ ControllerIdle

_on_key_press(key_str) ==
    /\ key_str # TOGGLE_KEY => Len(op.actions) < MaxRecorded
    /\ op' = [OnKeyPress(op, key_str) EXCEPT
                 !.event = IF key_str = TOGGLE_KEY THEN "toggle" ELSE "key_press"]
    /\ ControllerIdle

_on_key_release(key_str) ==
    /\ op' = [OnKeyRelease(op, key_str) EXCEPT !.event = "key_release"]
    /\ ControllerIdle

_on_mouse_move(x) ==
    /\ Len(op.actions) < MaxRecorded
    /\ op' = [OnMouseMove(op, x) EXCEPT !.event = "mouse_move"]
    /\ ControllerIdle

_on_mouse_click(button) ==
    /\ Len(op.actions) < MaxRecorded
    /\ op' = [OnMouseClick(op, button) EXCEPT !.event = "mouse_click"]
    /\ ControllerIdle

RecorderNext ==
    \/ Tick
    \/ start_recording
    \/ stop_recording
    \/ discard_recording
    \/ \E key_str \in TypedKeys : _on_key_press(key_str)
    \/ \E key_str \in TypedKeys : _on_key_release(key_str)
    \/ \E x \in MouseXs : _on_mouse_move(x)
    \/ \E button \in {"left", "right", "middle"} : _on_mouse_click(button)

RecorderSpec == RecorderInit /\ [][RecorderNext]_vars

\* C39: the recording flag is a two-state toggle. start_recording sets
\* is_recording, sets start_time and empties the action list and the
\* pressed-key set; stop_recording clears is_recording and start_time and
\* changes nothing when not recording; a press of the toggle key switches
\* the flag, acting as start_recording or stop_recording, and appends no
\* action for itself.
C39_RecordingToggle ==
    [][ /\ op'.event = "start_recording" =>
              /\ op'.is_recording
              /\ op'.start_time = op.now /\ op'.start_time # NoTime
              /\ op'.actions = << >>
              /\ op'.pressed_keys = {}
        /\ op'.event = "stop_recording" =>
              IF op.is_recording
              THEN ~op'.is_recording /\ op'.start_time = NoTime
              ELSE op' = [op EXCEPT !.event = "stop_recording"]
        /\ op'.event = "toggle" =>
              /\ op'.is_recording = ~op.is_recording
              /\ IF op.is_recording
                 THEN /\ op' = [StopRecording(op) EXCEPT !.event = "toggle"]
                      /\ op'.actions = op.actions
                      /\ op'.start_time = NoTime
                 ELSE /\ op' = [StartRecording(op) EXCEPT !.event = "toggle"]
                      /\ op'.actions = << >>
                      /\ op'.pressed_keys = {}
                      /\ op'.start_time # NoTime ]_vars

\* the toggle key was pressed during a recording that holds two actions, one
\* of them of a key still held: the recording stopped, the actions were
\* saved and none was added
C39_Witness ==
    /\ op.event = "toggle"
    /\ ~op.is_recording
    /\ op.start_time = NoTime
    /\ Len(op.actions) = MaxRecorded
    /\ op.saved # << >>
    /\ "sprint" \in op.pressed_keys

\* C40: in every reachable recorder state is_recording is true exactly when
\* start_time is set, so that key presses (which test is_recording) and key
\* releases and mouse events (which test start_time) are recorded or
\* ignored together.
C40_FlagMatchesStartTime ==
    op.is_recording <=> op.start_time # NoTime

====
